---- MODULE Spec2Model ----
(***************************************************************************)
(* A model of the combat engine of the tactics game: GameBoard.tsx (line   *)
(* of sight, movement planner, targeting, direct attack, shield bash with  *)
(* chain collisions, enemy AI, turn handling, win/loss) over small level   *)
(* descriptors of the shape of data/levels.ts.                              *)
(*                                                                         *)
(* React state of the GameBoard component is the state of the model.  The  *)
(* passive effects (grid rebuild, win/loss check, stun clearing) run after *)
(* every commit before the next event is delivered, so they are part of    *)
(* the action that caused the commit.  The setTimeout callbacks (bash      *)
(* resolution 300 ms, post-attack turn advance 800 ms, enemy batch 1000    *)
(* ms) are separate actions; their relative order is constrained the way   *)
(* the delays constrain it (see BashTimer, PostAttackTimer, EnemyTimer).   *)
(***************************************************************************)
EXTENDS Integers, Sequences, FiniteSets, TLC

\* ------------------------------------------------------------------------
\* Bounds of the model
\* ------------------------------------------------------------------------

\* most attack clicks whose timers are pending at the same time
MaxPending == 2

\* most mountain cells of a terrain map drawn for the line-of-sight probe
MaxMountains == 1

\* side of the square terrain maps drawn for the line-of-sight probe
LosGridSize == 4

\* most blocking units drawn for the movement-planner probe
MaxBlockers == 1

\* ------------------------------------------------------------------------
\* Arithmetic helpers (Math.abs, Math.sign)
\* ------------------------------------------------------------------------

Abs(n) == IF n < 0 THEN -n ELSE n

Sign(n) == IF n > 0 THEN 1 ELSE IF n < 0 THEN -1 ELSE 0

Pos(px, py) == [x |-> px, y |-> py]

Manhattan(a, b) == Abs(a.x - b.x) + Abs(a.y - b.y)

\* ------------------------------------------------------------------------
\* Level descriptors (data/levels.ts), scaled down to small grids.
\* The emoji of a unit is its kind tag: "shield" or "bow".
\* ------------------------------------------------------------------------

Hero(px, py, h) ==
    [id |-> "hero", position |-> Pos(px, py), hp |-> h, moveRange |-> 3,
     attackRange |-> 1, damage |-> 5, team |-> "player", emoji |-> "shield",
     stunned |-> FALSE]

Archer(i, px, py) ==
    [id |-> i, position |-> Pos(px, py), hp |-> 4, moveRange |-> 2,
     attackRange |-> 2, damage |-> 4, team |-> "enemy", emoji |-> "bow",
     stunned |-> FALSE]

Shieldbearer(i, px, py, h) ==
    [id |-> i, position |-> Pos(px, py), hp |-> h, moveRange |-> 2,
     attackRange |-> 1, damage |-> 1, team |-> "enemy", emoji |-> "shield",
     stunned |-> FALSE]

LEVELS ==
    << [id |-> 1, gridSize |-> 5,
        units |-> << Hero(2, 4, 1), Archer("skel1", 1, 1), Archer("skel2", 3, 1) >>],
       [id |-> 2, gridSize |-> 5,
        units |-> << Hero(0, 3, 2), Shieldbearer("sb1", 1, 1, 2),
                     Shieldbearer("sb2", 2, 1, 2), Shieldbearer("sb3", 4, 1, 2) >>],
       [id |-> 2, gridSize |-> 5,
        units |-> << Hero(0, 4, 3), Shieldbearer("sb1", 2, 3, 2),
                     Shieldbearer("sb2", 1, 2, 2), Shieldbearer("sb3", 1, 1, 2) >>],
       [id |-> 3, gridSize |-> 6,
        units |-> << Hero(2, 5, 2), Archer("archer1", 2, 1),
                     Shieldbearer("sb1", 2, 2, 2), Shieldbearer("sb2", 4, 3, 2) >>],
       [id |-> 3, gridSize |-> 6,
        units |-> << Hero(3, 2, 2), Archer("archer1", 0, 2),
                     Shieldbearer("sb1", 1, 2, 2), Shieldbearer("sb2", 2, 3, 3),
                     Shieldbearer("sb3", 2, 4, 6) >>] >>

\* level.mapSetup(x, y) of level number lv
mapSetup(lv, px, py) ==
    CASE lv = 1 ->
            IF px = 2 /\ py = 2 THEN "mountain"
            ELSE IF px = 1 /\ py = 1 THEN "forest"
            ELSE IF px = 3 /\ py = 1 THEN "forest"
            ELSE IF py = 0 THEN "water"
            ELSE "plains"
      [] lv \in {2, 3} ->
            IF py = 0 THEN "water"
            ELSE IF px = 3 /\ py = 3 THEN "mountain"
            ELSE IF px = 4 /\ py = 4 THEN "water"
            ELSE "plains"
      [] lv = 5 ->
            IF py = 0 THEN "water"
            ELSE IF px = 5 /\ py = 5 THEN "forest"
            ELSE IF px = 4 /\ py = 5 THEN "forest"
            ELSE "plains"
      [] OTHER ->
            IF py = 0 THEN "water"
            ELSE IF px = 0 /\ py = 3 THEN "mountain"
            ELSE IF px = 5 /\ py = 3 THEN "mountain"
            ELSE IF px = 2 /\ py = 4 THEN "forest"
            ELSE IF px = 3 /\ py = 2 THEN "forest"
            ELSE "plains"

\* the grid effect: currentGrid[y][x] is the terrain of tile (x, y)
BuildGrid(lv) ==
    [gy \in 0..(LEVELS[lv].gridSize - 1) |->
        [gx \in 0..(LEVELS[lv].gridSize - 1) |-> mapSetup(lv, gx, gy)]]

\* ------------------------------------------------------------------------
\* Array helpers
\* ------------------------------------------------------------------------

\* Array.prototype.findIndex on ids; 0 stands for -1
FindIndexById(us, uid) ==
    IF \E i \in 1..Len(us) : us[i].id = uid
    THEN CHOOSE i \in 1..Len(us) :
            us[i].id = uid /\ \A j \in 1..(i - 1) : us[j].id # uid
    ELSE 0

\* index of the first unit standing on p whose id is not uid; 0 if none
FindIndexAt(us, p, uid) ==
    IF \E i \in 1..Len(us) : us[i].position = p /\ us[i].id # uid
    THEN CHOOSE i \in 1..Len(us) :
            /\ us[i].position = p /\ us[i].id # uid
            /\ \A j \in 1..(i - 1) : ~(us[j].position = p /\ us[j].id # uid)
    ELSE 0

\* splice(idx) without the delete count: drops the rest of the array as well
Splice_Truncate(us, idx) == SubSeq(us, 1, idx - 1)

\* Array.prototype.splice(idx, 1)
Splice(us, idx) ==
    [i \in 1..(Len(us) - 1) |-> IF i < idx THEN us[i] ELSE us[i + 1]]

Alive(u) == u.hp > 0

\* the roster update without its filter
FilterAlive_Keep(us) == us

\* .filter(u => u.hp > 0)
FilterAlive(us) == SelectSeq(us, Alive)

IsEnemy(u) == u.team = "enemy"

IsPlayer(u) == u.team = "player"

\* ------------------------------------------------------------------------
\* Line of sight (Bresenham)
\* ------------------------------------------------------------------------

RECURSIVE LosLoop(_, _, _, _, _, _)
LosLoop(x0, y0, err, start, end, currentGrid) ==
    IF x0 = end.x /\ y0 = end.y THEN TRUE
    ELSE IF ~(x0 = start.x /\ y0 = start.y) /\ currentGrid[y0][x0] = "mountain"
    THEN FALSE
    ELSE LET dx == Abs(end.x - start.x)
             dy == Abs(end.y - start.y)
             sx == IF start.x < end.x THEN 1 ELSE -1
             sy == IF start.y < end.y THEN 1 ELSE -1
             e2 == 2 * err
             stepX == e2 > -dy
             errA == IF stepX THEN err - dy ELSE err
             xA == IF stepX THEN x0 + sx ELSE x0
             stepY == e2 < dx
             errB == IF stepY THEN errA + dx ELSE errA
             yA == IF stepY THEN y0 + sy ELSE y0
         IN  LosLoop(xA, yA, errB, start, end, currentGrid)

hasLineOfSight(start, end, currentGrid) ==
    LosLoop(start.x, start.y,
            Abs(end.x - start.x) - Abs(end.y - start.y),
            start, end, currentGrid)

\* ------------------------------------------------------------------------
\* Movement planner (BFS with first-arrival costs)
\* ------------------------------------------------------------------------

Neighbors(c) ==
    << Pos(c.x + 1, c.y), Pos(c.x - 1, c.y), Pos(c.x, c.y + 1), Pos(c.x, c.y - 1) >>

\* every tile costs 1 to enter
EnterCost_Flat(terrain) == 1

\* cost of entering the tile, before the forest-exit rule
EnterCost(terrain) == IF terrain = "forest" THEN 2 ELSE 1

\* only water stops a move
Impassable_WaterOnly(terrain) == terrain = "water"

\* only mountain stops a move
Impassable_MountainOnly(terrain) == terrain = "mountain"

\* terrain no move may enter (line 287)
Impassable(terrain) == terrain = "water" \/ terrain = "mountain"

\* one neighbor of the forEach: returns the updated [queue, visited]
VisitNeighbor(st, current, neighbor, unit, currentGrid, allUnits, gridSize, startsOnForest) ==
    IF neighbor.x < 0 \/ neighbor.x >= gridSize \/ neighbor.y < 0 \/ neighbor.y >= gridSize
    THEN st
    ELSE LET terrain == currentGrid[neighbor.y][neighbor.x]
             isBlocked == \E i \in 1..Len(allUnits) : allUnits[i].position = neighbor
         IN  IF Impassable(terrain) \/ isBlocked
             THEN st
             ELSE LET cost == IF current.curCost = 0 /\ startsOnForest
                              THEN 2
                              ELSE EnterCost(terrain)
                  IN  IF current.curCost + cost <= unit.moveRange
                         /\ neighbor \notin st.visited
                      THEN [queue |-> Append(st.queue,
                                        [x |-> neighbor.x, y |-> neighbor.y,
                                         curCost |-> current.curCost + cost]),
                            visited |-> st.visited \cup {neighbor}]
                      ELSE st

RECURSIVE VisitNeighbors(_, _, _, _, _, _, _, _)
VisitNeighbors(st, current, k, unit, currentGrid, allUnits, gridSize, startsOnForest) ==
    IF k > 4 THEN st
    ELSE VisitNeighbors(
            VisitNeighbor(st, current, Neighbors(current)[k], unit, currentGrid,
                          allUnits, gridSize, startsOnForest),
            current, k + 1, unit, currentGrid, allUnits, gridSize, startsOnForest)

RECURSIVE BfsLoop(_, _, _, _, _, _, _)
BfsLoop(st, valid, unit, currentGrid, allUnits, gridSize, startsOnForest) ==
    IF st.queue = << >> THEN valid
    ELSE LET current == Head(st.queue)
             valid1 == IF current.curCost > 0 THEN Append(valid, current) ELSE valid
             st1 == VisitNeighbors([queue |-> Tail(st.queue), visited |-> st.visited],
                                   current, 1, unit, currentGrid, allUnits, gridSize,
                                   startsOnForest)
         IN  BfsLoop(st1, valid1, unit, currentGrid, allUnits, gridSize, startsOnForest)

\* no unit is under the forest-exit rule
StartsOnForest_Never(unit, currentGrid) == FALSE

\* the forest-exit rule applies: the unit is not an archer and stands on a
\* forest cell (line 265)
StartsOnForest(unit, currentGrid) ==
    /\ unit.emoji # "bow"
    /\ currentGrid[unit.position.y][unit.position.x] = "forest"

\* the nodes of `valid` in push order, each with the cost it was reached at
ValidMoveNodes(unit, currentGrid, allUnits, gridSize) ==
    IF unit.stunned THEN << >>
    ELSE LET startsOnForest == StartsOnForest(unit, currentGrid)
         IN  BfsLoop([queue |-> << [x |-> unit.position.x, y |-> unit.position.y,
                                    curCost |-> 0] >>,
                      visited |-> {unit.position}],
                     << >>, unit, currentGrid, allUnits, gridSize, startsOnForest)

\* getValidMoves: `units` of the closure is the parameter allUnits
getValidMoves(unit, currentGrid, allUnits, gridSize) ==
    LET nodes == ValidMoveNodes(unit, currentGrid, allUnits, gridSize)
    IN  [i \in 1..Len(nodes) |-> Pos(nodes[i].x, nodes[i].y)]

\* ------------------------------------------------------------------------
\* Targeting
\* ------------------------------------------------------------------------

\* every unit of the other team is a target, whatever its distance
getValidTargets_AnyRange(attacker, currentGrid, allUnits) ==
    LET IsTarget(target) == target.team # attacker.team
        hit == SelectSeq(allUnits, IsTarget)
    IN  [i \in 1..Len(hit) |-> hit[i].position]

getValidTargets(attacker, currentGrid, allUnits) ==
    LET IsTarget(target) ==
            /\ target.team # attacker.team
            /\ Manhattan(attacker.position, target.position) <= attacker.attackRange
            /\ hasLineOfSight(attacker.position, target.position, currentGrid)
        hit == SelectSeq(allUnits, IsTarget)
    IN  [i \in 1..Len(hit) |-> hit[i].position]

\* ------------------------------------------------------------------------
\* State of the GameBoard component
\* ------------------------------------------------------------------------

VARIABLES
    level,          \* index into LEVELS of the level prop
    units,          \* the roster
    selectedUnitId, \* "none" stands for null
    validMoves,
    currentTurn,
    hasMoved,
    validTargets,
    selectedAction,
    gameState,
    bashQ,          \* pending 300 ms timers of executeShieldBash, oldest first
    postQ,          \* pending 800 ms timers of handleTileClick, oldest first
    lastEvent,      \* what the last combat resolution did (console.log trail)
    probe           \* inputs and results of the pure-function probes

vars == << level, units, selectedUnitId, validMoves, currentTurn, hasMoved,
           validTargets, selectedAction, gameState, bashQ, postQ, lastEvent, probe >>

NoEvent == [kind |-> "none", target |-> "none", hit |-> "none"]

NoProbe == [kind |-> "none"]

GRID_SIZE == LEVELS[level].gridSize

grid == BuildGrid(level)

\* useState initialiser of selectedAction, and the reset of the 800 ms timer
DefaultAction(lv) == IF LEVELS[lv].id = 2 THEN "shield-bash" ELSE "attack"

\* tile.unit as the grid effect sets it: units.find over the tile position
TileUnit(us, p) ==
    LET idx == FindIndexAt(us, p, "no-such-id")
    IN  IF idx = 0 THEN [id |-> "none", team |-> "none"] ELSE us[idx]

\* the stun-clear effect without its map
ClearStun_Keep(us) == us

\* .map(u => ({ ...u, stunned: false }))
ClearStun(us) == [i \in 1..Len(us) |-> [us[i] EXCEPT !.stunned = FALSE]]

\* the win/loss effect without its test for a missing player unit
CheckWinLoss_NoLoss(us, gs) ==
    IF gs # "playing" THEN gs
    ELSE IF ~\E i \in 1..Len(us) : us[i].team = "enemy" THEN "won"
    ELSE gs

\* the win/loss effect
CheckWinLoss(us, gs) ==
    IF gs # "playing" THEN gs
    ELSE IF ~\E i \in 1..Len(us) : IsPlayer(us[i]) THEN "lost"
    ELSE IF ~\E i \in 1..Len(us) : IsEnemy(us[i]) THEN "won"
    ELSE gs

\* the component after mount: useState initialisers, then the first run of the
\* effects (the stun-clear effect maps stunned to false on every unit)
InitGame(lv) ==
    /\ level = lv
    /\ units = ClearStun(LEVELS[level].units)
    /\ selectedUnitId = "none"
    /\ validMoves = << >>
    /\ currentTurn = "player"
    /\ hasMoved = FALSE
    /\ validTargets = << >>
    /\ selectedAction = DefaultAction(level)
    /\ gameState = "playing"
    /\ bashQ = << >>
    /\ postQ = << >>
    /\ lastEvent = NoEvent

Init ==
    /\ \E lv \in 1..Len(LEVELS) : InitGame(lv)
    /\ probe = NoProbe

\* ------------------------------------------------------------------------
\* Combat resolver
\* ------------------------------------------------------------------------

\* the hit takes 1 hp whatever the attacker's damage
Damaged_ByOne(u, dmg) == [u EXCEPT !.hp = u.hp - 1]

\* { ...u, hp: u.hp - dmg }
Damaged(u, dmg) == [u EXCEPT !.hp = u.hp - dmg]

\* the setUnits updater of executeAttack
AttackUpdate(prev, targetId, dmg) ==
    FilterAlive([i \in 1..Len(prev) |->
                    IF prev[i].id = targetId
                    THEN Damaged(prev[i], dmg)
                    ELSE prev[i]])

getKnockbackPath(start, end) ==
    LET dx == Sign(end.x - start.x)
        dy == Sign(end.y - start.y)
    IN  << Pos(start.x + dx, start.y + dy), Pos(start.x + dx * 2, start.y + dy * 2) >>

getPositionBeforeCollision(collisionPoint, dx, dy) ==
    Pos(collisionPoint.x - dx, collisionPoint.y - dy)

\* the bounds check with > in place of >=
OutOfBounds_OffByOne(p, gridSize) ==
    p.x < 0 \/ p.x > gridSize \/ p.y < 0 \/ p.y > gridSize

OutOfBounds(p, gridSize) ==
    p.x < 0 \/ p.x >= gridSize \/ p.y < 0 \/ p.y >= gridSize

\* does the path cell collide: another unit on it, or mountain terrain
Collides(us, p, targetId, lv) ==
    \/ \E i \in 1..Len(us) : us[i].id # targetId /\ us[i].position = p
    \/ mapSetup(lv, p.x, p.y) = "mountain"

\* the knocked unit never gets the stunned flag
Knocked_NoStun(u, p, stun) == [u EXCEPT !.hp = u.hp - 1, !.position = p]

\* the target after a collision or a landing: hp - 1 at the new position
Knocked(u, p, stun) ==
    IF stun THEN [u EXCEPT !.hp = u.hp - 1, !.position = p, !.stunned = TRUE]
    ELSE [u EXCEPT !.hp = u.hp - 1, !.position = p]

\* no terrain eliminates
Drowns_Never(terrain) == FALSE

\* terrain that eliminates a unit knocked onto it (lines 579 and 623)
Drowns(terrain) == terrain = "water"

\* the two special cases of a unit collision (lines 541 and 554): the struck
\* unit is eliminated on the spot
Crushed(pushedEmoji, struckEmoji) ==
    \/ pushedEmoji = "shield" /\ struckEmoji = "bow"
    \/ struckEmoji = "shield" /\ pushedEmoji = "bow"

\* the branch of a unit-vs-unit collision (lines 533-617)
UnitCollision(prev, targetIndex, b, collisionPoint, dx, dy, lv) ==
    LET targetUnit == prev[targetIndex]
        hitUnitIndex == FindIndexAt(prev, collisionPoint, b.targetId)
    IN  IF hitUnitIndex = 0
        THEN [units |-> [prev EXCEPT ![targetIndex] =
                            Knocked(targetUnit,
                                    getPositionBeforeCollision(collisionPoint, dx, dy),
                                    FALSE)],
              toEnemy |-> FALSE, kind |-> "fallback", hit |-> "none"]
        ELSE
        LET hitUnit == prev[hitUnitIndex]
            moved == [prev EXCEPT ![targetIndex] =
                         Knocked(targetUnit, hitUnit.position, TRUE)]
        IN  IF Crushed(b.targetEmoji, hitUnit.emoji)
            THEN [units |-> Splice(moved, hitUnitIndex), toEnemy |-> TRUE,
                  kind |-> IF b.targetEmoji = "shield" THEN "shieldHitsArcher"
                           ELSE "archerHitsShield",
                  hit |-> hitUnit.id]
            ELSE
            LET hitUnitKnockbackPos ==
                    Pos(collisionPoint.x + dx * 2, collisionPoint.y + dy * 2)
                isHitUnitOutOfBounds ==
                    OutOfBounds(hitUnitKnockbackPos, LEVELS[lv].gridSize)
                isHitUnitWater ==
                    /\ ~isHitUnitOutOfBounds
                    /\ Drowns(mapSetup(lv, hitUnitKnockbackPos.x, hitUnitKnockbackPos.y))
            IN  IF isHitUnitOutOfBounds \/ isHitUnitWater
                THEN [units |-> Splice(moved, hitUnitIndex), toEnemy |-> TRUE,
                      kind |-> "swapEliminated", hit |-> hitUnit.id]
                ELSE [units |-> [moved EXCEPT ![hitUnitIndex] =
                                    Knocked(hitUnit, hitUnitKnockbackPos, FALSE)],
                      toEnemy |-> TRUE, kind |-> "swap", hit |-> hitUnit.id]

\* the setUnits updater of executeShieldBash; b is what the closure captured at
\* the click: attackerPos, targetId, targetPos, targetEmoji.  toEnemy tells
\* whether the updater called setCurrentTurn('enemy').
BashUpdate(prev, b, lv) ==
    LET dx == b.targetPos.x - b.attackerPos.x
        dy == b.targetPos.y - b.attackerPos.y
        pushPos == Pos(b.targetPos.x + dx * 2, b.targetPos.y + dy * 2)
        targetIndex == FindIndexById(prev, b.targetId)
    IN  IF targetIndex = 0
        THEN [units |-> prev, toEnemy |-> FALSE, kind |-> "gone", hit |-> "none"]
        ELSE IF prev[targetIndex].hp <= 0
        THEN [units |-> prev, toEnemy |-> FALSE, kind |-> "gone", hit |-> "none"]
        ELSE IF OutOfBounds(pushPos, LEVELS[lv].gridSize)
        THEN [units |-> Splice(prev, targetIndex), toEnemy |-> FALSE,
              kind |-> "outOfBounds", hit |-> "none"]
        ELSE
        LET targetUnit == prev[targetIndex]
            knockbackPath == getKnockbackPath(b.targetPos, pushPos)
            hits == {k \in 1..2 : Collides(prev, knockbackPath[k], b.targetId, lv)}
        IN  IF hits # {}
            THEN LET collisionPoint == knockbackPath[IF 1 \in hits THEN 1 ELSE 2]
                 IN  IF mapSetup(lv, collisionPoint.x, collisionPoint.y) = "mountain"
                     THEN [units |-> [prev EXCEPT ![targetIndex] =
                                         Knocked(targetUnit, collisionPoint, TRUE)],
                           toEnemy |-> TRUE, kind |-> "mountain", hit |-> "none"]
                     ELSE UnitCollision(prev, targetIndex, b, collisionPoint, dx, dy, lv)
            ELSE LET terrain == mapSetup(lv, pushPos.x, pushPos.y)
                 IN  IF Drowns(terrain)
                     THEN [units |-> Splice(prev, targetIndex), toEnemy |-> FALSE,
                           kind |-> "water", hit |-> "none"]
                     ELSE IF terrain = "mountain"
                     THEN [units |-> [prev EXCEPT ![targetIndex] =
                                         Knocked(targetUnit, pushPos, TRUE)],
                           toEnemy |-> TRUE, kind |-> "mountainDest", hit |-> "none"]
                     ELSE [units |-> [prev EXCEPT ![targetIndex] =
                                         Knocked(targetUnit, pushPos, FALSE)],
                           toEnemy |-> FALSE, kind |-> "knockback", hit |-> "none"]

\* every return of the updater goes through .filter(u => u.hp > 0)
executeShieldBash(prev, b, lv) ==
    LET r == BashUpdate(prev, b, lv)
    IN  [r EXCEPT !.units = FilterAlive(r.units)]

\* ------------------------------------------------------------------------
\* Enemy decision procedure
\* ------------------------------------------------------------------------

\* the enemies are processed in roster order
SortByDistance_RosterOrder(enemies, player) == enemies

\* enemies.sort by distance to the player; Array.prototype.sort is stable
SortByDistance(enemies, player) ==
    LET key(i) == Manhattan(enemies[i].position, player.position)
        rank(i) == 1 + Cardinality({j \in 1..Len(enemies) :
                        key(j) < key(i) \/ (key(j) = key(i) /\ j < i)})
    IN  [r \in 1..Len(enemies) |->
            enemies[CHOOSE i \in 1..Len(enemies) : rank(i) = r]]

\* the moves.forEach of one enemy: the first unblocked move of least
\* |dist - attackRange|, or the enemy's own cell when every move is blocked
BestMove(enemy, moves, newUnits, player) ==
    LET free == {k \in 1..Len(moves) :
                    ~\E i \in 1..Len(newUnits) :
                        newUnits[i].position = moves[k] /\ newUnits[i].id # enemy.id}
        diff(k) == Abs(Manhattan(moves[k], player.position) - enemy.attackRange)
    IN  IF free = {} THEN enemy.position
        ELSE moves[CHOOSE k \in free :
                      \A m \in free : diff(k) < diff(m) \/ (diff(k) = diff(m) /\ k <= m)]

\* range alone decides
InReach_NoSight(p, attackRange, player, currentGrid) ==
    Manhattan(p, player.position) <= attackRange

\* does the enemy standing at p reach the player
InReach(p, attackRange, player, currentGrid) ==
    /\ Manhattan(p, player.position) <= attackRange
    /\ hasLineOfSight(p, player.position, currentGrid)

\* no enemy is skipped
Skipped_Never(enemy) == FALSE

\* "if (enemy.stunned) return" at the head of both forEach bodies
Skipped(enemy) == enemy.stunned

\* the first enemies.forEach: movement, in sorted order
RECURSIVE MoveLoop(_, _, _, _, _, _, _)
MoveLoop(enemies, k, newUnits, player, closureUnits, currentGrid, gridSize) ==
    IF k > Len(enemies) THEN newUnits
    ELSE LET enemy == enemies[k]
         IN  IF Skipped(enemy)
             THEN MoveLoop(enemies, k + 1, newUnits, player, closureUnits, currentGrid, gridSize)
             ELSE IF ~InReach(enemy.position, enemy.attackRange, player, currentGrid)
             THEN LET moves == getValidMoves(enemy, currentGrid, closureUnits, gridSize)
                      bestMove == BestMove(enemy, moves, newUnits, player)
                      moved == [i \in 1..Len(newUnits) |->
                                   IF newUnits[i].id = enemy.id
                                   THEN [newUnits[i] EXCEPT !.position = bestMove]
                                   ELSE newUnits[i]]
                  IN  MoveLoop(enemies, k + 1, moved, player, closureUnits, currentGrid, gridSize)
             ELSE MoveLoop(enemies, k + 1, newUnits, player, closureUnits, currentGrid, gridSize)

\* the second enemies.forEach: the damage dealt to the player
RECURSIVE AttackLoop(_, _, _, _, _)
AttackLoop(enemies, k, newUnits, player, currentGrid) ==
    IF k > Len(enemies) THEN 0
    ELSE LET enemy == enemies[k]
             rest == AttackLoop(enemies, k + 1, newUnits, player, currentGrid)
         IN  IF Skipped(enemy) THEN rest
             ELSE LET updated == newUnits[FindIndexById(newUnits, enemy.id)]
                  IN  IF InReach(updated.position, updated.attackRange, player, currentGrid)
                      THEN updated.damage + rest
                      ELSE rest

\* the body of the 1000 ms timer: the roster handed to setUnits
EnemyBatch(us, currentGrid, gridSize) ==
    LET enemies == SelectSeq(us, IsEnemy)
        players == SelectSeq(us, IsPlayer)
    IN  IF Len(enemies) > 0 /\ Len(players) > 0
        THEN LET player == players[1]
                 sorted == SortByDistance(enemies, player)
                 newUnits == MoveLoop(sorted, 1, us, player, us, currentGrid, gridSize)
                 playerHp == player.hp - AttackLoop(sorted, 1, newUnits, player, currentGrid)
             IN  FilterAlive([i \in 1..Len(newUnits) |->
                                IF newUnits[i].team = "player"
                                THEN [newUnits[i] EXCEPT !.hp = playerHp]
                                ELSE newUnits[i]])
        ELSE us

\* the first enemy of the roster the batch moved and then let strike (it gets
\* a damage event, line 698); "none" if there is none
MovedAndStruck(us, batch, currentGrid) ==
    LET hits == {i \in 1..Len(us) :
                    /\ IsEnemy(us[i]) /\ ~us[i].stunned
                    /\ \E j \in 1..Len(batch) :
                          /\ batch[j].id = us[i].id
                          /\ batch[j].position # us[i].position
                          /\ \E k \in 1..Len(us) :
                                /\ IsPlayer(us[k])
                                /\ InReach(batch[j].position, batch[j].attackRange,
                                           us[k], currentGrid)}
    IN  IF hits = {} THEN "none"
        ELSE us[CHOOSE i \in hits : \A j \in hits : i <= j].id

\* ------------------------------------------------------------------------
\* Handlers and timers
\* ------------------------------------------------------------------------

\* every cell counts as a member of the stored list
InSeq_Always(q, p) == TRUE

InSeq(q, p) == \E i \in 1..Len(q) : q[i] = p

\* handleTileClick, branch "selectedUnit && hasMoved" (lines 714-734)
ClickAttack(tilePos, selectedUnit) ==
    LET targetUnit == TileUnit(units, tilePos)
    IN  IF InSeq(validTargets, tilePos) /\ targetUnit.team = "enemy"
        THEN /\ Len(postQ) < MaxPending
             /\ IF selectedAction = "shield-bash"
                THEN /\ bashQ' = Append(bashQ,
                                    [attackerPos |-> selectedUnit.position,
                                     targetId |-> targetUnit.id,
                                     targetPos |-> targetUnit.position,
                                     targetEmoji |-> targetUnit.emoji])
                     /\ postQ' = Append(postQ, Len(bashQ) + 1)
                     /\ UNCHANGED << units, gameState, lastEvent >>
                ELSE /\ units' = AttackUpdate(units, targetUnit.id, selectedUnit.damage)
                     /\ gameState' = CheckWinLoss(units', gameState)
                     /\ lastEvent' = [kind |-> "attack", target |-> targetUnit.id,
                                      hit |-> "none"]
                     /\ postQ' = Append(postQ, Len(bashQ))
                     /\ UNCHANGED bashQ
             /\ UNCHANGED << selectedUnitId, validMoves, currentTurn, hasMoved,
                             validTargets, selectedAction >>
        ELSE UNCHANGED << units, selectedUnitId, validMoves, currentTurn, hasMoved,
                          validTargets, selectedAction, gameState, bashQ, postQ,
                          lastEvent >>

\* handleTileClick, branch "isValidMove" (lines 738-752)
ClickMove(tilePos) ==
    LET newUnits == [i \in 1..Len(units) |->
                        IF units[i].id = selectedUnitId
                        THEN [units[i] EXCEPT !.position = tilePos]
                        ELSE units[i]]
        movedUnit == newUnits[FindIndexById(newUnits, selectedUnitId)]
        targets == getValidTargets(movedUnit, grid, newUnits)
    IN  /\ units' = newUnits
        /\ validMoves' = << >>
        /\ IF Len(targets) > 0
           THEN /\ hasMoved' = TRUE
                /\ validTargets' = targets
                /\ UNCHANGED << selectedUnitId, currentTurn >>
           ELSE /\ selectedUnitId' = "none"
                /\ currentTurn' = "enemy"
                /\ UNCHANGED << hasMoved, validTargets >>
        /\ gameState' = CheckWinLoss(units', gameState)
        /\ UNCHANGED << selectedAction, bashQ, postQ, lastEvent >>

\* handleTileClick, the selection branches (lines 755-767)
ClickSelect(tilePos) ==
    LET tileUnit == TileUnit(units, tilePos)
    IN  /\ IF tileUnit.team = "player" /\ ~hasMoved
           THEN IF tileUnit.stunned
                THEN selectedUnitId' = "none" /\ validMoves' = << >>
                ELSE /\ selectedUnitId' = tileUnit.id
                     /\ validMoves' = getValidMoves(tileUnit, grid, units, GRID_SIZE)
           ELSE IF ~hasMoved
                THEN selectedUnitId' = "none" /\ validMoves' = << >>
                ELSE UNCHANGED << selectedUnitId, validMoves >>
        /\ UNCHANGED << units, currentTurn, hasMoved, validTargets, selectedAction,
                        gameState, bashQ, postQ, lastEvent >>

handleTileClick(tilePos) ==
    /\ currentTurn = "player"
    /\ LET idx == FindIndexById(units, selectedUnitId)
       IN  IF idx # 0 /\ hasMoved
           THEN ClickAttack(tilePos, units[idx])
           ELSE IF selectedUnitId # "none" /\ ~hasMoved /\ InSeq(validMoves, tilePos)
           THEN ClickMove(tilePos)
           ELSE ClickSelect(tilePos)
    /\ UNCHANGED << level, probe >>

\* a click on a tile of the board; the victory/defeat overlay (lines 788-814)
\* covers the board while gameState is not 'playing'
TileClick ==
    /\ gameState = "playing"
    /\ \E tx \in 0..(GRID_SIZE - 1), ty \in 0..(GRID_SIZE - 1) :
          handleTileClick(Pos(tx, ty))

\* the SWORD / BASH buttons of the skill bar (lines 934-952)
SelectAction ==
    /\ gameState = "playing"
    /\ selectedUnitId # "none" /\ hasMoved
    /\ \E a \in {"attack", "shield-bash"} :
          /\ a = "attack" => LEVELS[level].id # 2
          /\ a = "shield-bash" => LEVELS[level].id # 1
          /\ selectedAction' = a
    /\ UNCHANGED << level, units, selectedUnitId, validMoves, currentTurn, hasMoved,
                    validTargets, gameState, bashQ, postQ, lastEvent, probe >>

\* a stun leaves the turn alone
TurnAfterBash_Keep(toEnemy, turn) == turn

\* the setCurrentTurn('enemy') of the stun branches (lines 529, 553, 566, 611,
\* 636)
TurnAfterBash(toEnemy, turn) == IF toEnemy THEN "enemy" ELSE turn

\* The 300 ms timer of executeShieldBash.  Timers of equal delay fire in the
\* order they were set, so the oldest pending bash resolves first.
BashTimer ==
    /\ bashQ # << >>
    /\ LET b == Head(bashQ)
           r == executeShieldBash(units, b, level)
       IN  /\ units' = r.units
           /\ currentTurn' = TurnAfterBash(r.toEnemy, currentTurn)
           /\ lastEvent' = [kind |-> r.kind, target |-> b.targetId, hit |-> r.hit]
           /\ gameState' = CheckWinLoss(r.units, gameState)
    /\ bashQ' = Tail(bashQ)
    /\ postQ' = [i \in 1..Len(postQ) |-> IF postQ[i] > 0 THEN postQ[i] - 1 ELSE 0]
    /\ UNCHANGED << level, selectedUnitId, validMoves, hasMoved, validTargets,
                    selectedAction, probe >>

\* The 800 ms timer of handleTileClick.  It was set by the same click as its
\* bash timer and after every older bash timer, so it fires only when those
\* have fired: Head(postQ) counts the bash timers still ahead of it.
PostAttackTimer ==
    /\ postQ # << >>
    /\ Head(postQ) = 0
    /\ postQ' = Tail(postQ)
    /\ hasMoved' = FALSE
    /\ validTargets' = << >>
    /\ selectedUnitId' = "none"
    /\ selectedAction' = DefaultAction(level)
    /\ currentTurn' = "enemy"
    /\ UNCHANGED << level, units, validMoves, gameState, bashQ, lastEvent, probe >>

\* The 1000 ms timer of the enemy AI effect.  The effect (re)starts it when the
\* turn becomes 'enemy' and whenever units change during the enemy turn; clicks
\* are only accepted while the turn is 'player', so every 300 ms and 800 ms
\* timer was set before the turn became 'enemy' and fires before this one.
\* The stun-clear effect and the win/loss effect run on the commit.
\* lastEvent records the first enemy the batch skipped as stunned and the
\* first enemy it moved and let strike.
EnemyTimer ==
    /\ currentTurn = "enemy"
    /\ gameState = "playing"
    /\ bashQ = << >>
    /\ postQ = << >>
    /\ LET batch == EnemyBatch(units, grid, GRID_SIZE)
       IN  /\ units' = ClearStun(batch)
           /\ gameState' = CheckWinLoss(batch, gameState)
    /\ currentTurn' = "player"
    /\ lastEvent' = [kind |-> "enemyPhase",
                     target |-> LET skipped == {i \in 1..Len(units) :
                                                 IsEnemy(units[i]) /\ units[i].stunned}
                                IN  IF skipped = {} THEN "none"
                                    ELSE units[CHOOSE i \in skipped :
                                                 \A j \in skipped : i <= j].id,
                     hit |-> MovedAndStruck(units, EnemyBatch(units, grid, GRID_SIZE), grid)]
    /\ UNCHANGED << level, selectedUnitId, validMoves, hasMoved, validTargets,
                    selectedAction, bashQ, postQ, probe >>

Next ==
    \/ TileClick
    \/ SelectAction
    \/ BashTimer
    \/ PostAttackTimer
    \/ EnemyTimer

Spec == Init /\ [][Next]_vars

\* The timers fire: a pending setTimeout callback runs once its delay has
\* passed (lines 453, 724, 659).  Weak fairness of each timer action, where
\* ENABLED <<BashTimer>>_vars is "a bash timer is pending" (the step removes
\* the head of bashQ) and ENABLED <<EnemyTimer>>_vars is EnemyTimerReady (the
\* step changes the turn); both are written in that expanded form.
EnemyTimerReady ==
    /\ currentTurn = "enemy"
    /\ gameState = "playing"
    /\ bashQ = << >>
    /\ postQ = << >>

BashTimerFair == []<>(bashQ = << >>) \/ []<><<BashTimer>>_vars

EnemyTimerFair == []<>(~EnemyTimerReady) \/ []<><<EnemyTimer>>_vars

SpecLive ==
    /\ Init /\ [][Next]_vars
    /\ BashTimerFair
    /\ WF_vars(PostAttackTimer)
    /\ EnemyTimerFair

\* ------------------------------------------------------------------------
\* Probe of hasLineOfSight over drawn terrain maps
\* ------------------------------------------------------------------------

\* the subsets of S of at most k elements
RECURSIVE SubsetsUpTo(_, _)
SubsetsUpTo(S, k) ==
    IF k = 0 THEN {{}}
    ELSE LET smaller == SubsetsUpTo(S, k - 1)
         IN  smaller \cup {t \cup {e} : t \in smaller, e \in S}

LosCells == {Pos(cx, cy) : cx \in 0..(LosGridSize - 1), cy \in 0..(LosGridSize - 1)}

\* a terrain map whose mountain cells are exactly ms
LosGrid(ms) ==
    [gy \in 0..(LosGridSize - 1) |->
        [gx \in 0..(LosGridSize - 1) |->
            IF Pos(gx, gy) \in ms THEN "mountain" ELSE "plains"]]

InitLos ==
    /\ InitGame(1)
    /\ \E ms \in SubsetsUpTo(LosCells, MaxMountains) :
          probe = [kind |-> "losInput", mountains |-> ms]

LosProbe ==
    /\ probe.kind = "losInput"
    /\ \E a \in LosCells, b \in LosCells :
          probe' = [kind |-> "los", mountains |-> probe.mountains, a |-> a, b |-> b,
                    ab |-> hasLineOfSight(a, b, LosGrid(probe.mountains)),
                    ba |-> hasLineOfSight(b, a, LosGrid(probe.mountains))]
    /\ UNCHANGED << level, units, selectedUnitId, validMoves, currentTurn, hasMoved,
                    validTargets, selectedAction, gameState, bashQ, postQ, lastEvent >>

\* a unit of the targeting probe: only position, team and attackRange are read
TargetsUnit(i, c, tm, r) ==
    [id |-> i, position |-> c, hp |-> 1, moveRange |-> 1, attackRange |-> r,
     damage |-> 1, team |-> tm, emoji |-> "bow", stunned |-> FALSE]

\* getValidTargets over a drawn attacker and a second unit of either team
TargetsProbe ==
    /\ probe.kind = "losInput"
    /\ \E a \in LosCells, b \in LosCells, r \in 1..2,
          ta \in {"player", "enemy"}, tb \in {"player", "enemy"} :
          /\ a # b
          /\ LET attacker == TargetsUnit("attacker", a, ta, r)
                 roster == << attacker, TargetsUnit("other", b, tb, 1) >>
             IN  probe' = [kind |-> "targets", mountains |-> probe.mountains,
                           attacker |-> attacker, roster |-> roster,
                           targets |-> getValidTargets(attacker,
                                                       LosGrid(probe.mountains), roster)]
    /\ UNCHANGED << level, units, selectedUnitId, validMoves, currentTurn, hasMoved,
                    validTargets, selectedAction, gameState, bashQ, postQ, lastEvent >>

NextLos == LosProbe \/ TargetsProbe

SpecLos == InitLos /\ [][NextLos]_vars

\* ------------------------------------------------------------------------
\* Probe of getValidMoves over drawn units and rosters
\* ------------------------------------------------------------------------

LevelCells(lv) ==
    {Pos(cx, cy) : cx \in 0..(LEVELS[lv].gridSize - 1), cy \in 0..(LEVELS[lv].gridSize - 1)}

\* a roster entry that only blocks: a shieldbearer standing on cell c
Blocker(c) == Shieldbearer("blocker", c.x, c.y, 1)

InitMoves ==
    /\ InitGame(1)
    /\ \E lv \in 1..Len(LEVELS) : \E cs \in SubsetsUpTo(LevelCells(lv), MaxBlockers) :
          /\ \A c \in cs : mapSetup(lv, c.x, c.y) # "water"
          /\ probe = [kind |-> "movesInput", lv |-> lv, blockers |-> cs]

\* the roster of the probe: the unit itself, then the blockers
MovesRoster(unit, cs) ==
    LET n == Cardinality(cs)
        order == CHOOSE f \in [1..n -> cs] : \A i, j \in 1..n : i # j => f[i] # f[j]
    IN  << unit >> \o [i \in 1..n |-> Blocker(order[i])]

MovesProbe ==
    /\ probe.kind = "movesInput"
    /\ \E c \in LevelCells(probe.lv), mr \in 1..3, em \in {"shield", "bow"}, st \in BOOLEAN :
          /\ mapSetup(probe.lv, c.x, c.y) # "water"
          /\ c \notin probe.blockers
          /\ LET unit == [id |-> "probe", position |-> c, hp |-> 1, moveRange |-> mr,
                          attackRange |-> 1, damage |-> 1, team |-> "enemy",
                          emoji |-> em, stunned |-> st]
                 roster == MovesRoster(unit, probe.blockers)
             IN  probe' = [kind |-> "moves", lv |-> probe.lv, blockers |-> probe.blockers,
                           unit |-> unit,
                           nodes |-> ValidMoveNodes(unit, BuildGrid(probe.lv), roster,
                                                    LEVELS[probe.lv].gridSize),
                           moves |-> getValidMoves(unit, BuildGrid(probe.lv), roster,
                                                   LEVELS[probe.lv].gridSize)]
    /\ UNCHANGED << level, units, selectedUnitId, validMoves, currentTurn, hasMoved,
                    validTargets, selectedAction, gameState, bashQ, postQ, lastEvent >>

NextMoves == MovesProbe

SpecMoves == InitMoves /\ [][NextMoves]_vars

\* ------------------------------------------------------------------------
\* Probe of executeShieldBash over drawn attacker/target pairs
\* ------------------------------------------------------------------------

\* cells a unit may stand on
Standable(lv) ==
    {c \in LevelCells(lv) : mapSetup(lv, c.x, c.y) \notin {"water", "mountain"}}

InitBash ==
    /\ InitGame(1)
    /\ \E lv \in 1..Len(LEVELS) : \E c \in Standable(lv) :
          probe = [kind |-> "bashInput", lv |-> lv, third |-> c]

\* one bash of a player unit of attackRange r on a shieldbearer it has as a
\* valid target, with a second shieldbearer on the drawn cell
BashProbe ==
    /\ probe.kind = "bashInput"
    /\ \E a \in Standable(probe.lv), t \in Standable(probe.lv), r \in 1..2 :
          /\ Cardinality({a, t, probe.third}) = 3
          /\ LET attacker == [Hero(a.x, a.y, 2) EXCEPT !.attackRange = r]
                 target == Shieldbearer("target", t.x, t.y, 2)
                 roster == << attacker, target,
                              Shieldbearer("other", probe.third.x, probe.third.y, 2) >>
                 b == [attackerPos |-> a, targetId |-> target.id,
                       targetPos |-> t, targetEmoji |-> target.emoji]
             IN  /\ InSeq(getValidTargets(attacker, BuildGrid(probe.lv), roster), t)
                 /\ probe' = [kind |-> "bash", lv |-> probe.lv, third |-> probe.third,
                              bash |-> b, roster |-> roster,
                              result |-> executeShieldBash(roster, b, probe.lv)]
    /\ UNCHANGED << level, units, selectedUnitId, validMoves, currentTurn, hasMoved,
                    validTargets, selectedAction, gameState, bashQ, postQ, lastEvent >>

NextBash == BashProbe

SpecBash == InitBash /\ [][NextBash]_vars

\* ------------------------------------------------------------------------
\* The App component (App.tsx): overworld, progress and the save in
\* localStorage.  Its state is carried in probe; the board it mounts is seen
\* through the callbacks onWin, onLose, onExit and onRetry only.
\* ------------------------------------------------------------------------

\* the retry key is a counter; it is capped
MaxRetry == 1

GAME_VERSION == "1.2.0"

SAFE_SPAWN_DISTANCE == 5

WORLD_SIZE == 22

\* id, unlocksId (0 where the descriptor has none) and overworldPosition of
\* the three shipped levels
OVERWORLD_LEVELS ==
    << [id |-> 1, unlocksId |-> 2, overworldPosition |-> Pos(13, 18)],
       [id |-> 2, unlocksId |-> 3, overworldPosition |-> Pos(15, 11)],
       [id |-> 3, unlocksId |-> 0, overworldPosition |-> Pos(11, 4)] >>

calculateDistance(pos1, pos2) == Abs(pos1.x - pos2.x) + Abs(pos1.y - pos2.y)

isPositionSafe(position, levels) ==
    \A i \in 1..Len(levels) :
        calculateDistance(position, levels[i].overworldPosition) >= SAFE_SPAWN_DISTANCE

\* the candidate list of one radius, in the order the loops push it: the
\* top and bottom edge by dx, then the left and right edge by dy
RingPositions(currentPos, radius) ==
    LET edge == [i \in 1..(2 * (2 * radius + 1)) |->
                    Pos(currentPos.x - radius + ((i - 1) \div 2),
                        IF i % 2 = 1 THEN currentPos.y - radius
                                     ELSE currentPos.y + radius)]
        side == [j \in 1..(2 * (2 * radius - 1)) |->
                    Pos(IF j % 2 = 1 THEN currentPos.x - radius
                                     ELSE currentPos.x + radius,
                        currentPos.y - radius + 1 + ((j - 1) \div 2))]
    IN  edge \o side

RECURSIVE FindSafeLoop(_, _, _)
FindSafeLoop(currentPos, levels, radius) ==
    IF radius > 10 THEN Pos(5, 5)
    ELSE LET positions == RingPositions(currentPos, radius)
             safe == {k \in 1..Len(positions) : isPositionSafe(positions[k], levels)}
         IN  IF safe # {}
             THEN positions[CHOOSE k \in safe : \A m \in safe : k <= m]
             ELSE FindSafeLoop(currentPos, levels, radius + 1)

\* the hero stays where the search started
findSafePosition_Stay(currentPos, levels) == currentPos

findSafePosition(currentPos, levels) == FindSafeLoop(currentPos, levels, 1)

\* localStorage: the version key ("none" when absent) and the save key (an
\* empty sequence when absent, else the one stored record)
\* written is the record last passed to saveGame in this session (not part of
\* localStorage; kept to compare a later load with it)
NoStorage == [version |-> "none", save |-> << >>, written |-> << >>]

\* JSON.stringify of a progress record: the text is modelled as the sequence
\* of its numbers, the array preceded by its length
JSON_stringify(data) ==
    << Len(data.unlockedLevels) >> \o data.unlockedLevels
        \o << data.overworldPos.x, data.overworldPos.y, data.currentLevelId >>

\* JSON.parse of such a text
JSON_parse(text) ==
    LET n == text[1]
    IN  [unlockedLevels |-> SubSeq(text, 2, n + 1),
         overworldPos |-> Pos(text[n + 2], text[n + 3]),
         currentLevelId |-> text[n + 4]]

SaveData(unlocked, pos, levelId) ==
    [unlockedLevels |-> unlocked, overworldPos |-> pos, currentLevelId |-> levelId]

\* the version is written only when absent; the record replaces the save
saveGame(storage, data) ==
    [version |-> IF storage.version = "none" THEN GAME_VERSION ELSE storage.version,
     save |-> << JSON_stringify(data) >>,
     written |-> << data >>]

\* the storage after the call and the returned data (empty for null)
loadGame(storage) ==
    IF storage.version # "none" /\ storage.version # GAME_VERSION
    THEN [storage |-> [storage EXCEPT !.version = GAME_VERSION, !.save = << >>],
          data |-> << >>]
    ELSE IF storage.save # << >>
    THEN LET data == JSON_parse(storage.save[1])
         IN  IF Len(data.unlockedLevels) >= 3
             THEN [storage |-> [storage EXCEPT !.version = GAME_VERSION, !.save = << >>],
                   data |-> << >>]
             ELSE [storage |-> storage, data |-> << data >>]
    ELSE [storage |-> storage, data |-> << >>]

Includes(q, e) == \E i \in 1..Len(q) : q[i] = e

\* LEVELS.find(l => l.id === currentLevelId)
LevelById(levelId) ==
    OVERWORLD_LEVELS[CHOOSE i \in 1..Len(OVERWORLD_LEVELS) : OVERWORLD_LEVELS[i].id = levelId]

\* the useState defaults of App over a given localStorage
AppState(storage) ==
    [kind |-> "appBoot", currentView |-> "overworld", unlockedLevels |-> << 1 >>,
     currentLevelId |-> 1, overworldPos |-> Pos(11, 20), retryKey |-> 0,
     storage |-> storage, last |-> "none"]

WorldCells == {Pos(cx, cy) : cx \in 0..(WORLD_SIZE - 1), cy \in 0..(WORLD_SIZE - 1)}

\* the saves a browser may hold at start: none, or a record written by an
\* earlier session under this or an older version
StoredSaves ==
    {NoStorage}
    \cup {[version |-> v, save |-> << JSON_stringify(SaveData(ul, c, lv)) >>,
             written |-> << >>] :
             v \in {GAME_VERSION, "1.1.0"},
             ul \in {<< 1 >>, << 1, 2 >>, << 1, 2, 3 >>},
             c \in WorldCells,
             lv \in 1..3}

InitApp ==
    /\ InitGame(1)
    /\ \E storage \in StoredSaves : probe = AppState(storage)

\* the mount effect: load the save and apply the safe spawn
LoadEffect ==
    /\ probe.kind = "appBoot"
    /\ LET loaded == loadGame(probe.storage)
       IN  IF loaded.data # << >>
           THEN LET savedGame == loaded.data[1]
                    loadedPos == savedGame.overworldPos
                    unsafe == ~isPositionSafe(loadedPos, OVERWORLD_LEVELS)
                    safePos == findSafePosition(loadedPos, OVERWORLD_LEVELS)
                IN  probe' = [probe EXCEPT
                        !.kind = "app",
                        !.unlockedLevels = savedGame.unlockedLevels,
                        !.currentLevelId = savedGame.currentLevelId,
                        !.overworldPos = IF unsafe THEN safePos ELSE loadedPos,
                        !.storage = IF unsafe
                                    THEN saveGame(loaded.storage,
                                                  SaveData(savedGame.unlockedLevels, safePos,
                                                           savedGame.currentLevelId))
                                    ELSE loaded.storage,
                        !.last = "loaded"]
           ELSE probe' = [probe EXCEPT !.kind = "app", !.storage = loaded.storage,
                                       !.last = "fresh"]
    /\ UNCHANGED << level, units, selectedUnitId, validMoves, currentTurn, hasMoved,
                    validTargets, selectedAction, gameState, bashQ, postQ, lastEvent >>

Clamp(v) == IF v < 0 THEN 0 ELSE IF v > WORLD_SIZE - 1 THEN WORLD_SIZE - 1 ELSE v

\* a key press in the overworld: handleKeyDown, then onMove
OverworldMove ==
    /\ probe.kind = "app"
    /\ probe.currentView = "overworld"
    /\ \E d \in {Pos(0, -1), Pos(0, 1), Pos(-1, 0), Pos(1, 0)} :
          LET newPos == Pos(Clamp(probe.overworldPos.x + d.x),
                            Clamp(probe.overworldPos.y + d.y))
          IN  probe' = [probe EXCEPT
                  !.overworldPos = newPos,
                  !.storage = saveGame(probe.storage,
                                       SaveData(probe.unlockedLevels, newPos,
                                                probe.currentLevelId)),
                  !.last = "move"]
    /\ UNCHANGED << level, units, selectedUnitId, validMoves, currentTurn, hasMoved,
                    validTargets, selectedAction, gameState, bashQ, postQ, lastEvent >>

\* the 300 ms timer of the level-entry effect, then handleSelectLevel
EnterLevel ==
    /\ probe.kind = "app"
    /\ probe.currentView = "overworld"
    /\ LET here == {i \in 1..Len(OVERWORLD_LEVELS) :
                       /\ OVERWORLD_LEVELS[i].overworldPosition = probe.overworldPos
                       /\ Includes(probe.unlockedLevels, OVERWORLD_LEVELS[i].id)}
       IN  /\ here # {}
           /\ probe' = [probe EXCEPT
                  !.currentLevelId =
                      OVERWORLD_LEVELS[CHOOSE i \in here : \A j \in here : i <= j].id,
                  !.currentView = "game",
                  !.last = "enter"]
    /\ UNCHANGED << level, units, selectedUnitId, validMoves, currentTurn, hasMoved,
                    validTargets, selectedAction, gameState, bashQ, postQ, lastEvent >>

\* the setOverworldPos updater shared by handleWin, handleLose and
\* handleExit: one cell down, moved to a safe cell if needed
SpawnAfterLevel(prev) ==
    LET newPos == Pos(prev.x, prev.y + 1)
    IN  IF ~isPositionSafe(newPos, OVERWORLD_LEVELS)
        THEN findSafePosition(newPos, OVERWORLD_LEVELS)
        ELSE newPos

\* handleWin.  The updater of setUnlockedLevels runs before the updater of
\* setOverworldPos (the hooks are processed in declaration order), and the
\* latter saves the unlockedLevels of the render that created the handler.
HandleWin ==
    /\ probe.kind = "app"
    /\ probe.currentView = "game"
    /\ LET currentLevel == LevelById(probe.currentLevelId)
           unlocks == currentLevel.unlocksId # 0
                      /\ ~Includes(probe.unlockedLevels, currentLevel.unlocksId)
           newUnlocked == IF unlocks
                          THEN Append(probe.unlockedLevels, currentLevel.unlocksId)
                          ELSE probe.unlockedLevels
           afterUnlock == IF unlocks
                          THEN saveGame(probe.storage,
                                        SaveData(newUnlocked, probe.overworldPos,
                                                 probe.currentLevelId))
                          ELSE probe.storage
           spawn == SpawnAfterLevel(probe.overworldPos)
       IN  probe' = [probe EXCEPT
               !.unlockedLevels = newUnlocked,
               !.overworldPos = spawn,
               !.storage = saveGame(afterUnlock,
                                    SaveData(probe.unlockedLevels, spawn,
                                             probe.currentLevelId)),
               !.currentLevelId = IF currentLevel.unlocksId # 0
                                  THEN currentLevel.unlocksId ELSE @,
               !.currentView = "overworld",
               !.last = "win"]
    /\ UNCHANGED << level, units, selectedUnitId, validMoves, currentTurn, hasMoved,
                    validTargets, selectedAction, gameState, bashQ, postQ, lastEvent >>

\* handleLose and handleExit have the same body
LeaveLevel(how) ==
    /\ probe.kind = "app"
    /\ probe.currentView = "game"
    /\ LET spawn == SpawnAfterLevel(probe.overworldPos)
       IN  probe' = [probe EXCEPT
               !.overworldPos = spawn,
               !.storage = saveGame(probe.storage,
                                    SaveData(probe.unlockedLevels, spawn,
                                             probe.currentLevelId)),
               !.currentView = "overworld",
               !.last = how]
    /\ UNCHANGED << level, units, selectedUnitId, validMoves, currentTurn, hasMoved,
                    validTargets, selectedAction, gameState, bashQ, postQ, lastEvent >>

HandleLose == LeaveLevel("lose")

HandleExit == LeaveLevel("exit")

HandleRetry ==
    /\ probe.kind = "app"
    /\ probe.currentView = "game"
    /\ probe.retryKey < MaxRetry
    /\ probe' = [probe EXCEPT !.retryKey = @ + 1, !.last = "retry"]
    /\ UNCHANGED << level, units, selectedUnitId, validMoves, currentTurn, hasMoved,
                    validTargets, selectedAction, gameState, bashQ, postQ, lastEvent >>

NextApp ==
    \/ LoadEffect
    \/ OverworldMove
    \/ EnterLevel
    \/ HandleWin
    \/ HandleLose
    \/ HandleExit
    \/ HandleRetry

SpecApp == InitApp /\ [][NextApp]_vars

\* ------------------------------------------------------------------------
\* Properties
\* ------------------------------------------------------------------------

Ids(us) == {us[i].id : i \in 1..Len(us)}

Range(us) == {us[i] : i \in 1..Len(us)}

OnTerrain(u, terrain) == mapSetup(level, u.position.x, u.position.y) = terrain

InGrid(p, gridSize) == p.x \in 0..(gridSize - 1) /\ p.y \in 0..(gridSize - 1)

\* no timer of a player action is pending
Settled == bashQ = << >> /\ postQ = << >>

\* the step is the firing of a 300 ms bash timer
BashStep == bashQ # << >> /\ bashQ' = Tail(bashQ)

\* the step is an accepted direct attack
AttackStep == Len(postQ') > Len(postQ) /\ bashQ' = bashQ

ChainKinds == {"swap", "swapEliminated", "shieldHitsArcher", "archerHitsShield"}

\* C1: in every reachable state no two live units occupy the same cell.
C1_OneUnitPerCell ==
    \A i, j \in 1..Len(units) : i # j => units[i].position # units[j].position

\* C2: in every reachable state every unit of the roster has hp > 0; a
\* mutation that brings a unit to hp <= 0 removes it in the same update.
C2_HpPositive == \A i \in 1..Len(units) : units[i].hp > 0

\* a bash whose 1 hp of damage was lethal: the target is gone from the roster
C2_Witness ==
    /\ lastEvent.kind \in {"knockback", "mountain", "swap"}
    /\ lastEvent.target \notin Ids(units)

FrozenStep ==
    gameState \in {"won", "lost"} =>
        (units' = units /\ currentTurn' = currentTurn /\ gameState' = gameState)

\* C3: once the outcome is won or lost, no step (command or pending timer)
\* changes the roster, the turn or the outcome.
C3_TerminalFrozen == [][FrozenStep]_vars

\* C4 as stated: in every settled state no live unit stands on a mountain cell.
C4_NoUnitOnMountain ==
    Settled => \A i \in 1..Len(units) : ~OnTerrain(units[i], "mountain")

StoodThere(u) ==
    \E j \in 1..Len(units) : units[j].id = u.id /\ units[j].position = u.position

MountainEntryStep ==
    \A i \in 1..Len(units') :
        mapSetup(level, units'[i].position.x, units'[i].position.y) = "mountain" =>
            (BashStep \/ StoodThere(units'[i]))

\* C4 amended: a unit comes to stand on a mountain cell only in the resolution
\* of a bash; no player move and no enemy movement puts a unit on a mountain.
C4_MountainOnlyByBash == [][MountainEntryStep]_vars

\* an enemy phase has run its movement while a bashed unit stood on a mountain
C4_Witness ==
    /\ lastEvent.kind = "enemyPhase"
    /\ \E i \in 1..Len(units) : OnTerrain(units[i], "mountain")
    /\ \E i \in 1..Len(units) :
          /\ units[i].team = "enemy"
          /\ units[i].position # LEVELS[level].units[FindIndexById(LEVELS[level].units, units[i].id)].position
          /\ ~OnTerrain(units[i], "mountain")

\* C5: no live unit stands on a water cell; a unit bashed or knocked onto
\* water is removed instead, and no move enters water.
C5_NoUnitOnWater == \A i \in 1..Len(units) : ~OnTerrain(units[i], "water")

\* a bash sent its target onto water and the target is gone
C5_Witness ==
    /\ lastEvent.kind = "water"
    /\ lastEvent.target \notin Ids(units)

\* C6: every live unit's position lies inside the grid; a bash whose
\* destination is outside the grid removes the unit.
C6_InBounds == \A i \in 1..Len(units) : InGrid(units[i].position, GRID_SIZE)

\* a bash pushed its target over the edge and the target is gone
C6_Witness ==
    /\ lastEvent.kind = "outOfBounds"
    /\ lastEvent.target \notin Ids(units)

\* C7: hasLineOfSight(a, b) = hasLineOfSight(b, a) for every pair of cells and
\* every terrain map.
C7_LosSymmetric == probe.kind = "los" => probe.ab = probe.ba

\* the forest-exit rule applies to the unit of the probe
ProbeForestExit ==
    /\ probe.unit.emoji # "bow"
    /\ mapSetup(probe.lv, probe.unit.position.x, probe.unit.position.y) = "forest"

\* the cost the claim gives to the step from a node reached at cost fromCost
\* onto cell c
ClaimStepCost(fromCost, c) ==
    IF fromCost = 0 /\ ProbeForestExit THEN 2
    ELSE IF mapSetup(probe.lv, c.x, c.y) = "forest" THEN 2
    ELSE 1

\* C8: every cell getValidMoves returns has an accumulated entry cost (1 per
\* non-forest cell, 2 per forest cell, first step 2 under the forest-exit
\* rule) of at most moveRange, lies in the grid, is neither water nor
\* mountain, holds no unit and is not the unit's own cell.
C8_ValidMovesBound ==
    probe.kind = "moves" =>
        /\ Len(probe.moves) = Len(probe.nodes)
        /\ \A k \in 1..Len(probe.nodes) :
              LET n == probe.nodes[k]
                  c == Pos(n.x, n.y)
                  start == [x |-> probe.unit.position.x, y |-> probe.unit.position.y,
                            curCost |-> 0]
              IN  /\ probe.moves[k] = c
                  /\ n.curCost <= probe.unit.moveRange
                  /\ InGrid(c, LEVELS[probe.lv].gridSize)
                  /\ mapSetup(probe.lv, c.x, c.y) \notin {"water", "mountain"}
                  /\ c \notin probe.blockers
                  /\ c # probe.unit.position
                  /\ \E q \in {start} \cup Range(probe.nodes) :
                        /\ Manhattan(Pos(q.x, q.y), c) = 1
                        /\ n.curCost = q.curCost + ClaimStepCost(q.curCost, c)

\* a shieldbearer leaving a forest cell with a blocker on the map, some cell
\* reached at the full cost 3
C8_Witness ==
    /\ probe.kind = "moves"
    /\ probe.blockers # {}
    /\ ProbeForestExit
    /\ \E k \in 1..Len(probe.nodes) : probe.nodes[k].curCost = 3

\* C9: after a bash resolution with a chain collision at most one unit is
\* stunned, and it is the primary target of the bash.
C9_StunExclusive ==
    lastEvent.kind \in ChainKinds =>
        \A i \in 1..Len(units) : units[i].stunned => units[i].id = lastEvent.target

RemovesOnlyEliminated ==
    /\ \A i \in 1..Len(units) :
          units[i].id \notin {lastEvent'.target, lastEvent'.hit} =>
              units[i] \in Range(units')
    /\ Ids(units') \subseteq Ids(units)
    /\ Len(units') = Len(units) - Cardinality(Ids(units) \ Ids(units'))

AbsentTargetNoop ==
    /\ (BashStep /\ Head(bashQ).targetId \notin Ids(units)) => units' = units
    /\ \A d \in 1..5 : AttackUpdate(units, "no-such-id", d) = units

\* C10: resolving a bash against a target id that is no longer in the roster
\* leaves the roster unchanged (so does a direct attack on an absent id), and
\* a resolution removes only entries of the units it eliminates: every other
\* entry stays as it was, one entry goes per eliminated unit, none is added.
C10_EliminationExact ==
    [][AbsentTargetNoop /\ ((BashStep \/ AttackStep) => RemovesOnlyEliminated)]_vars

\* a bash timer fired for a target that an earlier resolution had removed
C10_Witness ==
    /\ lastEvent.kind = "gone"
    /\ lastEvent.target \notin Ids(units)

HasPlayer(us) == \E i \in 1..Len(us) : us[i].team = "player"

HasEnemy(us) == \E i \in 1..Len(us) : us[i].team = "enemy"

OutcomeStep ==
    gameState = "playing" =>
        /\ ~HasPlayer(units') => gameState' = "lost"
        /\ (HasPlayer(units') /\ ~HasEnemy(units')) => gameState' = "won"
        /\ gameState' = "won" => ~HasEnemy(units')
        /\ gameState' = "lost" => ~HasPlayer(units')

\* C11: while the outcome is playing, a step that leaves no player unit in the
\* roster makes the outcome lost, a step that leaves a player unit and no
\* enemy makes it won, and the outcome becomes won only with no enemy left
\* and lost only with no player unit left.
C11_OutcomeFollowsRoster == [][OutcomeStep]_vars

\* the enemy batch removed the hero and the outcome is lost
C11_Witness ==
    /\ gameState = "lost"
    /\ lastEvent.kind = "enemyPhase"
    /\ ~HasPlayer(units)
    /\ HasEnemy(units)

\* the step is a tile click accepted as an attack or bash command
AcceptStep == Len(postQ') > Len(postQ)

\* an attack command was accepted earlier in this player phase: its 800 ms
\* timer, which ends the phase, is still pending
AttackedThisPhase == postQ # << >>

OneAttackStep == AcceptStep => ~AttackedThisPhase

\* C12: within one player phase at most one direct attack or bash is
\* accepted; after an accepted attack command no further one is accepted
\* until the enemy phase has run and the turn is the player's again.
C12_OneAttackPerPhase == [][OneAttackStep]_vars

NoneStunned(us) == \A i \in 1..Len(us) : ~us[i].stunned

StunClearStep ==
    /\ (currentTurn = "enemy" /\ currentTurn' = "player" /\ gameState' = "playing")
          => NoneStunned(units')
    /\ (currentTurn = "player" /\ gameState = "playing") => NoneStunned(units)

\* C13: when the turn goes from enemy back to player while the outcome is
\* playing, no unit of the roster is stunned after the step, and no unit is
\* stunned in any state in which a player command can be accepted.
C13_StunClearedAtTurnBack == [][StunClearStep]_vars

\* an enemy phase that skipped a stunned enemy has ended: the turn is the
\* player's, the enemy is still in the roster and no longer stunned
C13_Witness ==
    /\ lastEvent.kind = "enemyPhase"
    /\ currentTurn = "player"
    /\ gameState = "playing"
    /\ \E i \in 1..Len(units) : units[i].id = lastEvent.target /\ ~units[i].stunned

\* the step is the enemy batch
EnemyPhaseStep == currentTurn = "enemy" /\ currentTurn' = "player"

UnitById(us, uid) == us[CHOOSE i \in 1..Len(us) : us[i].id = uid]

ThePlayer(us) == us[CHOOSE i \in 1..Len(us) : us[i].team = "player"]

\* the enemies of `after` that were not stunned in `before` and reach the
\* player from where they stand in `after`
Strikers(before, after) ==
    {j \in 1..Len(after) :
        /\ after[j].team = "enemy"
        /\ ~UnitById(before, after[j].id).stunned
        /\ Manhattan(after[j].position, ThePlayer(before).position) <= after[j].attackRange
        /\ hasLineOfSight(after[j].position, ThePlayer(before).position, grid)}

RECURSIVE SumDamage(_, _)
SumDamage(us, S) ==
    IF S = {} THEN 0
    ELSE LET j == CHOOSE k \in S : TRUE
         IN  us[j].damage + SumDamage(us, S \ {j})

StunnedSkippedStep ==
    (EnemyPhaseStep /\ HasPlayer(units) /\ HasEnemy(units)) =>
        /\ \A i \in 1..Len(units) :
              (units[i].team = "enemy" /\ units[i].stunned) =>
                  \E j \in 1..Len(units') :
                      /\ units'[j].id = units[i].id
                      /\ units'[j].position = units[i].position
                      /\ ~units'[j].stunned
        /\ LET dealt == SumDamage(units', Strikers(units, units'))
           IN  IF dealt >= ThePlayer(units).hp
               THEN ~HasPlayer(units')
               ELSE HasPlayer(units') /\ ThePlayer(units').hp = ThePlayer(units).hp - dealt

\* C14: an enemy that is stunned when the enemy phase starts keeps its
\* position through the phase and adds nothing to the damage the player
\* takes (the damage is that of the enemies not stunned at the start that
\* reach the player); after the phase its stunned flag is off, so the next
\* enemy phase treats it like any other enemy.
C14_StunnedEnemySkipped == [][StunnedSkippedStep]_vars

\* an enemy phase has skipped a stunned enemy that stood within its attack
\* range and line of sight of the player
C14_Witness ==
    /\ lastEvent.kind = "enemyPhase"
    /\ HasPlayer(units)
    /\ \E i \in 1..Len(units) :
          /\ units[i].id = lastEvent.target
          /\ Manhattan(units[i].position, ThePlayer(units).position) <= units[i].attackRange
          /\ hasLineOfSight(units[i].position, ThePlayer(units).position, grid)

\* ------------------------------------------------------------------------
\* Properties of the bash resolution.  They are stated over the step of the
\* 300 ms timer: TheBash is the bash it resolves, `units` the roster before
\* and units' the roster after.
\* ------------------------------------------------------------------------

TheBash == Head(bashQ)

\* the bash resolves against a target that is still in the roster
LiveBashStep == BashStep /\ TheBash.targetId \in Ids(units)

\* the unit sign vector from the attacker to the target
BashDir ==
    Pos(Sign(TheBash.targetPos.x - TheBash.attackerPos.x),
        Sign(TheBash.targetPos.y - TheBash.attackerPos.y))

\* the cell k steps along the knockback from the target's cell
PathCell(k) ==
    Pos(TheBash.targetPos.x + k * BashDir.x, TheBash.targetPos.y + k * BashDir.y)

\* the cell n steps beyond the cell c along the same vector
Beyond(c, n) == Pos(c.x + n * BashDir.x, c.y + n * BashDir.y)

\* what the target meets on cell p: the edge of the grid, a mountain, another
\* unit, or nothing
Meets(p) ==
    IF ~InGrid(p, GRID_SIZE) THEN "edge"
    ELSE IF mapSetup(level, p.x, p.y) = "mountain" THEN "mountain"
    ELSE IF \E i \in 1..Len(units) :
                units[i].id # TheBash.targetId /\ units[i].position = p
    THEN "unit"
    ELSE "nothing"

\* the first collision of the 2-cell path, scanned in order
FirstCollision ==
    IF Meets(PathCell(1)) # "nothing"
    THEN [what |-> Meets(PathCell(1)), cell |-> PathCell(1)]
    ELSE [what |-> Meets(PathCell(2)), cell |-> PathCell(2)]

\* the unit standing on the cell of the first collision
StruckUnit ==
    units[CHOOSE i \in 1..Len(units) :
            /\ units[i].id # TheBash.targetId /\ units[i].position = FirstCollision.cell
            /\ \A j \in 1..(i - 1) :
                  ~(units[j].id # TheBash.targetId
                    /\ units[j].position = FirstCollision.cell)]

TargetBefore == UnitById(units, TheBash.targetId)

\* after the step unit u stands on cell p with 1 hp less than `before` and
\* the given stunned flag; a unit whose last hp went is gone instead (C2)
HitAndPlaced(before, p, stun) ==
    IF before.hp <= 1
    THEN before.id \notin Ids(units')
    ELSE \E j \in 1..Len(units') :
            /\ units'[j].id = before.id
            /\ units'[j].position = p
            /\ units'[j].hp = before.hp - 1
            /\ units'[j].stunned = stun

\* every unit whose id is not in `ids` is in the roster after the step as it
\* was before, and nothing else is
OthersUntouched(ids) ==
    /\ \A i \in 1..Len(units) :
          units[i].id \notin ids => units[i] \in Range(units')
    /\ \A j \in 1..Len(units') :
          units'[j].id \notin ids => units'[j] \in Range(units)

MountainCollisionStep ==
    (LiveBashStep /\ FirstCollision.what = "mountain") =>
        /\ HitAndPlaced(TargetBefore, FirstCollision.cell, TRUE)
        /\ currentTurn' = "enemy"

\* C15: for every bash, if the first collision on the target's 2-cell path
\* (scanned in order) is a mountain cell, the target ends on that cell with
\* 1 hp less and stunned, and the turn is enemy after the resolution.
C15_MountainCollision == [][MountainCollisionStep]_vars

WaterLandingStep ==
    (LiveBashStep /\ FirstCollision.what = "nothing"
       /\ mapSetup(level, PathCell(2).x, PathCell(2).y) = "water") =>
        /\ TheBash.targetId \notin Ids(units')
        /\ OthersUntouched({TheBash.targetId})

\* C16: for every bash with no collision on the 2-cell path whose in-bounds
\* destination is water, the target is removed from the roster and every
\* other unit keeps its position, hp and stunned flag.
C16_WaterElimination == [][WaterLandingStep]_vars

\* a bash dropped its target into water while other enemies stay in play
C16_Witness ==
    /\ lastEvent.kind = "water"
    /\ lastEvent.target \notin Ids(units)
    /\ HasEnemy(units)
    /\ HasPlayer(units)

\* the first collision of the bash is with another unit, pushed kind `pushed`
\* against struck kind `struck`
UnitCollisionOf(pushed, struck) ==
    /\ LiveBashStep
    /\ FirstCollision.what = "unit"
    /\ TheBash.targetEmoji = pushed
    /\ StruckUnit.emoji = struck

ShieldIntoArcherStep ==
    UnitCollisionOf("shield", "bow") =>
        /\ StruckUnit.id \notin Ids(units')
        /\ HitAndPlaced(TargetBefore, FirstCollision.cell, TRUE)
        /\ currentTurn' = "enemy"

\* C17: when a bashed shieldbearer's path first collides with an archer, the
\* archer is removed from the roster, the shieldbearer stands on the
\* archer's former cell with 1 hp less and stunned, and the turn is enemy
\* after the resolution.
C17_ShieldbearerHitsArcher == [][ShieldIntoArcherStep]_vars

ArcherIntoShieldClaimStep ==
    UnitCollisionOf("bow", "shield") =>
        /\ TheBash.targetId \notin Ids(units')
        /\ StruckUnit.hp > 1 =>
              \E j \in 1..Len(units') :
                  /\ units'[j].id = StruckUnit.id
                  /\ units'[j].hp = StruckUnit.hp - 1
                  /\ units'[j].stunned

ArcherIntoShieldStep ==
    (UnitCollisionOf("bow", "shield") /\ InGrid(PathCell(2), GRID_SIZE)) =>
        /\ StruckUnit.id \notin Ids(units')
        /\ HitAndPlaced(TargetBefore, FirstCollision.cell, TRUE)
        /\ OthersUntouched({TheBash.targetId, StruckUnit.id})
        /\ currentTurn' = "enemy"

GenericCollision ==
    /\ LiveBashStep
    /\ FirstCollision.what = "unit"
    /\ ~(TheBash.targetEmoji = "shield" /\ StruckUnit.emoji = "bow")
    /\ ~(TheBash.targetEmoji = "bow" /\ StruckUnit.emoji = "shield")

\* where the secondary knockback sends the struck unit
SecondaryLanding == Beyond(FirstCollision.cell, 2)

GenericCollisionStep ==
    GenericCollision =>
        /\ HitAndPlaced(TargetBefore, FirstCollision.cell, TRUE)
        /\ IF ~InGrid(SecondaryLanding, GRID_SIZE)
              THEN StruckUnit.id \notin Ids(units')
              ELSE IF mapSetup(level, SecondaryLanding.x, SecondaryLanding.y) = "water"
              THEN StruckUnit.id \notin Ids(units')
              ELSE HitAndPlaced(StruckUnit, SecondaryLanding, FALSE)
        /\ currentTurn' = "enemy"

\* C19: in a generic unit-vs-unit bash collision the pushed unit takes the
\* struck unit's cell with 1 hp less and stunned; the struck unit is knocked
\* 2 cells further along the same vector from the collision cell, removed if
\* that cell is outside the grid or water, otherwise standing there with 1
\* hp less and not stunned; the turn is enemy after the resolution.
C19_GenericCollision == [][GenericCollisionStep]_vars

PlainKnockbackStep ==
    (LiveBashStep /\ FirstCollision.what = "nothing"
       /\ mapSetup(level, PathCell(2).x, PathCell(2).y) \notin {"water", "mountain"}) =>
        /\ HitAndPlaced(TargetBefore, PathCell(2), FALSE)
        /\ OthersUntouched({TheBash.targetId})
        /\ currentTurn' = currentTurn

\* C20: for every bash with no collision on the 2-cell path and an in-bounds
\* destination that is neither water nor mountain, the target stands on the
\* destination with exactly 1 hp less and not stunned, and the resolution
\* leaves the turn as it was.
C20_PlainKnockback == [][PlainKnockbackStep]_vars

\* ------------------------------------------------------------------------
\* Properties of the direct attack, the enemy phase and the tile clicks
\* ------------------------------------------------------------------------

\* the selected unit, the attacker of an accepted attack click
TheAttacker == UnitById(units, selectedUnitId)

DirectAttackStep ==
    AttackStep =>
        LET target == UnitById(units, lastEvent'.target)
        IN  /\ target.team = "enemy"
            /\ IF target.hp - TheAttacker.damage <= 0
               THEN target.id \notin Ids(units')
               ELSE \E j \in 1..Len(units') :
                       units'[j] = [target EXCEPT !.hp = target.hp - TheAttacker.damage]
            /\ OthersUntouched({target.id})

\* C21: a direct attack lowers only the target's hp, by exactly the
\* attacker's damage, removes the target when that leaves 0 or less, and
\* changes no position and nothing about the attacker or any other unit.
C21_DirectAttackFrame == [][DirectAttackStep]_vars

\* a direct attack left its target in the roster with less hp than the
\* level gave it
C21_Witness ==
    /\ lastEvent.kind = "attack"
    /\ \E i \in 1..Len(units) :
          /\ units[i].id = lastEvent.target
          /\ units[i].hp = 1
          /\ units[i].position = UnitById(LEVELS[level].units, units[i].id).position

\* the damage the player takes in the enemy phase of this step
DamageDealt == SumDamage(units', Strikers(units, units'))

\* enemy a is processed before enemy b: nearer to the player at the start of
\* the phase, roster order among equals
ActsBefore(a, b) ==
    LET da == Manhattan(units[a].position, ThePlayer(units).position)
        db == Manhattan(units[b].position, ThePlayer(units).position)
    IN  da < db \/ (da = db /\ a < b)

\* the cells enemy i finds taken when its turn to move comes: where the
\* enemies before it stand after their move, where the others still stand
TakenFor(i) ==
    {UnitById(units', units[k].id).position :
        k \in {n \in 1..Len(units) : IsEnemy(units[n]) /\ ActsBefore(n, i)}}
    \cup {units[k].position : k \in (1..Len(units)) \ {i}}

\* |distance to the player - attackRange| of enemy i standing on cell c
RangeGap(i, c) ==
    Abs(Manhattan(c, ThePlayer(units).position) - units[i].attackRange)

MoveThenAttackStep ==
    (EnemyPhaseStep /\ HasPlayer(units) /\ HasEnemy(units)) =>
        /\ \A i \in 1..Len(units) :
              (IsEnemy(units[i]) /\ ~units[i].stunned
                 /\ ~InReach(units[i].position, units[i].attackRange,
                             ThePlayer(units), grid)) =>
                  LET moves == getValidMoves(units[i], grid, units, GRID_SIZE)
                      free == {k \in 1..Len(moves) : moves[k] \notin TakenFor(i)}
                      now == UnitById(units', units[i].id).position
                  IN  IF free = {} THEN now = units[i].position
                      ELSE /\ \E k \in free : moves[k] = now
                           /\ \A k \in free : RangeGap(i, now) <= RangeGap(i, moves[k])
        /\ IF DamageDealt >= ThePlayer(units).hp
           THEN ~HasPlayer(units')
           ELSE ThePlayer(units').hp = ThePlayer(units).hp - DamageDealt

\* C22: in an enemy phase the enemies move in the order of their distance to
\* the player at the start of the phase (each sees the cells taken by the
\* enemies moved before it), and the attacks are evaluated after all moves:
\* the damage is that of the enemies that reach the player from where they
\* stand after moving.
C22_MoveThenAttack == [][MoveThenAttackStep]_vars

\* an enemy moved into reach of the player and struck in the same phase,
\* and the player is still in the roster
C22_Witness ==
    /\ lastEvent.kind = "enemyPhase"
    /\ lastEvent.hit # "none"
    /\ HasPlayer(units)
    /\ ThePlayer(units).hp < UnitById(LEVELS[level].units, "hero").hp

PhaseDamageStep ==
    (EnemyPhaseStep /\ HasPlayer(units) /\ HasEnemy(units)) =>
        /\ HasPlayer(units') <=> ThePlayer(units).hp - DamageDealt > 0
        /\ HasPlayer(units') =>
              ThePlayer(units') =
                  [ThePlayer(units) EXCEPT !.hp = ThePlayer(units).hp - DamageDealt]
        /\ \A i \in 1..Len(units) :
              IsEnemy(units[i]) =>
                  \E j \in 1..Len(units') :
                      units'[j].id = units[i].id /\ units'[j].hp = units[i].hp

\* C23: at the end of an enemy phase the player's hp is its hp at the start
\* minus the summed damage of every enemy, not stunned at the start, whose
\* final position is within its attackRange of the player with line of
\* sight; the player is removed exactly when that is 0 or less, and no
\* enemy's hp changes.
C23_PhaseDamage == [][PhaseDamageStep]_vars

\* two enemies struck in one phase and the player survived it: nobody was
\* stunned, two enemies reach the player, and the player's hp is what the
\* level gave it less the damage of all that reach it
C23_Witness ==
    /\ lastEvent.kind = "enemyPhase"
    /\ lastEvent.target = "none"
    /\ HasPlayer(units)
    /\ Cardinality(Strikers(units, units)) >= 2
    /\ ThePlayer(units).hp =
          UnitById(LEVELS[level].units, "hero").hp
              - SumDamage(units, Strikers(units, units))

\* C24: whenever the turn is the enemy's while the outcome is playing, the
\* enemy phase eventually completes and the turn returns to the player.
C24_EnemyPhaseCompletes ==
    (currentTurn = "enemy" /\ gameState = "playing") ~> (currentTurn = "player")

\* the step is a move command: a click moves the player's unit
MoveStep ==
    /\ currentTurn = "player"
    /\ bashQ' = bashQ
    /\ HasPlayer(units) /\ HasPlayer(units')
    /\ ThePlayer(units').position # ThePlayer(units).position

\* no enemy stands within the unit's attackRange of cell p with line of sight
NoTargetFrom(u, p) ==
    \A i \in 1..Len(units) :
        IsEnemy(units[i]) =>
            ~(/\ Manhattan(p, units[i].position) <= u.attackRange
              /\ hasLineOfSight(p, units[i].position, grid))

\* nothing but the position of the player's unit differs between the rosters
OnlyPlayerMoved ==
    /\ Len(units') = Len(units)
    /\ \A i \in 1..Len(units) :
          IF IsPlayer(units[i])
          THEN units'[i] = [units[i] EXCEPT !.position = units'[i].position]
          ELSE units'[i] = units[i]

AutoEndStep ==
    (MoveStep /\ NoTargetFrom(ThePlayer(units), ThePlayer(units').position)) =>
        /\ currentTurn' = "enemy"
        /\ selectedUnitId' = "none"
        /\ validMoves' = << >>
        /\ OnlyPlayerMoved
        /\ postQ' = postQ
        /\ gameState' = gameState

\* C25: a move of the selected unit to a reachable cell from which it has
\* no valid target ends the turn: the turn becomes enemy, no attack is
\* resolved and the selection is cleared.
C25_MoveWithoutTargetsEndsTurn == [][AutoEndStep]_vars

\* the turn was ended by a move: the player's unit has left its starting
\* cell and no attack, bash or enemy phase has happened yet
C25_Witness ==
    /\ currentTurn = "enemy"
    /\ gameState = "playing"
    /\ lastEvent = NoEvent
    /\ Settled
    /\ selectedUnitId = "none"
    /\ HasPlayer(units)
    /\ ThePlayer(units).position # LEVELS[level].units[1].position

\* a unit is selected and has not moved: the next tile click is a move
\* command (or a change of selection)
MoveMode ==
    /\ currentTurn = "player"
    /\ gameState = "playing"
    /\ selectedUnitId # "none"
    /\ ~hasMoved

\* the cells of the grid that are not in the stored list q
CellsOutside(q) ==
    {c \in {Pos(cx, cy) : cx \in 0..(GRID_SIZE - 1), cy \in 0..(GRID_SIZE - 1)} :
        \A k \in 1..Len(q) : q[k] # c}

\* position, hp and stun flag of every unit are as before
RosterKept ==
    /\ Len(units') = Len(units)
    /\ \A i \in 1..Len(units) :
          /\ units'[i].id = units[i].id
          /\ units'[i].position = units[i].position
          /\ units'[i].hp = units[i].hp
          /\ units'[i].stunned = units[i].stunned

\* a tile click in move mode (no timer fires in the step) either moves the
\* selected unit to a cell of the stored reachable set or keeps the roster,
\* the turn and the outcome
RejectedMoveStep ==
    (MoveMode /\ bashQ' = bashQ /\ postQ' = postQ) =>
        \/ RosterKept /\ currentTurn' = currentTurn /\ gameState' = gameState
        \/ /\ OnlyPlayerMoved
           /\ ThePlayer(units').position \notin CellsOutside(validMoves)

\* C26: a move command whose destination is not in the reachable set
\* computed at selection leaves every unit's position, hp and stun flag,
\* the turn and the outcome unchanged.
C26_UnreachableMoveRejected == [][RejectedMoveStep]_vars

\* a unit stands selected after an enemy phase, with reachable cells stored
\* and with cells of the grid outside that set: a click on its own cell, which
\* is outside the set, is such a command and leads back to this state
C26_Witness ==
    /\ MoveMode
    /\ lastEvent.kind = "enemyPhase"
    /\ Len(validMoves) > 0
    /\ ThePlayer(units).position \in CellsOutside(validMoves)
    /\ \E c \in CellsOutside(validMoves) : TileUnit(units, c).team = "enemy"

\* the selected unit has moved: the next tile click is an attack command
AttackMode ==
    /\ currentTurn = "player"
    /\ gameState = "playing"
    /\ selectedUnitId # "none"
    /\ hasMoved

\* the step accepts an attack or a bash on the enemy standing at cell p
AcceptedAttackOn(p) ==
    /\ Len(postQ') = Len(postQ) + 1
    /\ TileUnit(units, p).team = "enemy"
    /\ \/ /\ Len(bashQ') = Len(bashQ) + 1
          /\ bashQ'[Len(bashQ')].targetPos = p
          /\ bashQ'[Len(bashQ')].targetId = TileUnit(units, p).id
       \/ /\ bashQ' = bashQ
          /\ lastEvent'.kind = "attack"
          /\ lastEvent'.target = TileUnit(units, p).id

\* a tile click in attack mode (no timer fires and no skill button is
\* pressed in the step) either is an attack on an enemy standing on a cell of
\* the stored target set or changes nothing
RejectedAttackStep ==
    (/\ AttackMode
     /\ Len(bashQ') >= Len(bashQ) /\ Len(postQ') >= Len(postQ)
     /\ selectedAction' = selectedAction) =>
        \/ \E p \in {validTargets[k] : k \in 1..Len(validTargets)} : AcceptedAttackOn(p)
        \/ /\ units' = units
           /\ currentTurn' = currentTurn
           /\ gameState' = gameState
           /\ selectedUnitId' = selectedUnitId
           /\ hasMoved' = hasMoved
           /\ validMoves' = validMoves
           /\ validTargets' = validTargets
           /\ bashQ' = bashQ /\ postQ' = postQ

\* C27: after the selected unit has moved, an attack command on a cell that
\* is not in the computed valid-target set, or that holds no enemy unit,
\* changes nothing: roster, turn, outcome, selection and the stored target
\* set are unchanged.
C27_InvalidAttackRejected == [][RejectedAttackStep]_vars

\* the unit has moved next to a target while another enemy stands on a cell
\* outside the stored target set: a click on that enemy, or on an empty cell,
\* is such a command and leaves this state as it is
C27_Witness ==
    /\ AttackMode
    /\ Settled
    /\ Len(validTargets) > 0
    /\ \E c \in CellsOutside(validTargets) : TileUnit(units, c).team = "enemy"
    /\ \E c \in CellsOutside(validTargets) : TileUnit(units, c).team = "none"

\* a step that changes the roster while the turn is the enemy's is the
\* enemy batch: no timer of the player phase is pending and the step hands
\* the turn back
EnemyTurnRosterStep ==
    (currentTurn = "enemy" /\ units' # units) =>
        /\ Settled
        /\ gameState = "playing"
        /\ currentTurn' = "player"

\* C28: while the turn is enemy the roster is changed only by the enemy
\* batch; no tile click and no delayed effect of an earlier player action
\* changes any unit during the enemy phase.
C28_RosterOnlyByEnemyBatch == [][EnemyTurnRosterStep]_vars

\* ------------------------------------------------------------------------
\* Properties of the App component
\* ------------------------------------------------------------------------

\* the cell is at Manhattan distance 5 or more from every level entrance
FarFromEntrances(p) ==
    \A i \in 1..Len(OVERWORLD_LEVELS) :
        Abs(p.x - OVERWORLD_LEVELS[i].overworldPosition.x)
          + Abs(p.y - OVERWORLD_LEVELS[i].overworldPosition.y) >= 5

\* the step leaves a level: a win, a loss or an exit
LeaveLevelStep ==
    /\ probe.kind = "app" /\ probe.currentView = "game"
    /\ probe'.currentView = "overworld"

\* the step is the mount effect and loadGame returned a saved game
LoadedSaveStep ==
    /\ probe.kind = "appBoot"
    /\ probe'.kind = "app" /\ probe'.last = "loaded"

SafeSpawnStep ==
    (LeaveLevelStep \/ LoadedSaveStep) => FarFromEntrances(probe'.overworldPos)

\* C29: after any win, loss or exit from a level, and after loading a saved
\* game, the hero's overworld position is at Manhattan distance at least 5
\* from every level entrance.
C29_SafeSpawn == [][SafeSpawnStep]_vars

\* the hero has come back from a lost level and the safe spawn has moved it
\* off the cell below the entrance
C29_Witness ==
    /\ probe.kind = "app"
    /\ probe.last = "lose"
    /\ probe.currentView = "overworld"
    /\ \E i \in 1..Len(OVERWORLD_LEVELS) :
          /\ OVERWORLD_LEVELS[i].id = probe.currentLevelId
          /\ probe.overworldPos.x # OVERWORLD_LEVELS[i].overworldPosition.x
    /\ FarFromEntrances(probe.overworldPos)

\* the step is a win that unlocks a level
WinUnlockStep ==
    /\ probe.kind = "app" /\ probe.currentView = "game"
    /\ probe'.last = "win"
    /\ Len(probe'.unlockedLevels) = Len(probe.unlockedLevels) + 1

SavedUnlockStep ==
    WinUnlockStep =>
        /\ probe'.storage.save # << >>
        /\ Includes(JSON_parse(probe'.storage.save[1]).unlockedLevels,
                    probe'.unlockedLevels[Len(probe'.unlockedLevels)])

\* C30: after handleWin for a level whose unlocksId was not yet unlocked,
\* the last save written to storage contains the newly unlocked level id in
\* unlockedLevels.
C30_WinSavesUnlock == [][SavedUnlockStep]_vars

\* the session has written a save and the stored version is the current one
SaveWritten ==
    /\ probe.kind = "app"
    /\ probe.storage.written # << >>
    /\ probe.storage.version = GAME_VERSION

\* C31: save then load is a round trip: after saveGame has written a
\* progress record under the current game version, loadGame returns that
\* record, whatever levels are unlocked.
C31_SaveLoadRoundTrip ==
    SaveWritten => loadGame(probe.storage).data = probe.storage.written

\* ------------------------------------------------------------------------
\* Further properties of the bash, the enemy batch and the pure functions
\* ------------------------------------------------------------------------

\* step 1 of the path holds another unit and step 2 lies outside the grid
UnitBeforeEdge ==
    /\ LiveBashStep
    /\ Meets(PathCell(1)) = "unit"
    /\ ~InGrid(PathCell(2), GRID_SIZE)

UnitBeforeEdgeStep ==
    UnitBeforeEdge =>
        /\ lastEvent'.kind \in ChainKinds
        /\ StruckUnit \notin Range(units')

\* C32: the bash outcome is decided by the first colliding cell in path
\* order: if the cell at step 1 of the knockback path holds another unit
\* while the cell at step 2 is outside the grid, the bash resolves as a unit
\* collision at step 1 (the struck unit is affected), not as an out-of-bounds
\* elimination of the target.
C32_FirstCollisionDecides == [][UnitBeforeEdgeStep]_vars

\* the free reachable cells of enemy i that bring it strictly nearer to its
\* attack range than the cell it stands on
ImprovingMoves(i) ==
    LET moves == getValidMoves(units[i], grid, units, GRID_SIZE)
    IN  {k \in 1..Len(moves) :
            /\ moves[k] \notin TakenFor(i)
            /\ RangeGap(i, moves[k]) < RangeGap(i, units[i].position)}

MoveOnlyToImproveStep ==
    (EnemyPhaseStep /\ HasPlayer(units) /\ HasEnemy(units)) =>
        \A i \in 1..Len(units) :
            (IsEnemy(units[i]) /\ ~units[i].stunned
               /\ ~InReach(units[i].position, units[i].attackRange,
                           ThePlayer(units), grid)) =>
                LET moves == getValidMoves(units[i], grid, units, GRID_SIZE)
                    free == {k \in 1..Len(moves) : moves[k] \notin TakenFor(i)}
                    now == UnitById(units', units[i].id).position
                IN  IF ImprovingMoves(i) = {} THEN now = units[i].position
                    ELSE /\ \E k \in free : moves[k] = now
                         /\ \A k \in free :
                               RangeGap(i, now) <= RangeGap(i, moves[k])

\* C33: a non-stunned enemy that is out of range or without line of sight
\* moves to a free reachable cell of least |distance to player - attackRange|,
\* and stays on its own cell when no reachable cell is free or none improves
\* on the |distance to player - attackRange| of the cell it stands on.
C33_MoveOnlyToImprove == [][MoveOnlyToImproveStep]_vars

\* the probe ran getValidMoves for a unit that can move and stands on forest
ProbeFromForest ==
    /\ probe.kind = "moves"
    /\ ~probe.unit.stunned
    /\ mapSetup(probe.lv, probe.unit.position.x, probe.unit.position.y) = "forest"

\* the cells next to the probe's unit that a move may enter
AdjacentEnterable ==
    {c \in LevelCells(probe.lv) :
        /\ Manhattan(c, probe.unit.position) = 1
        /\ mapSetup(probe.lv, c.x, c.y) \notin {"water", "mountain"}
        /\ c \notin probe.blockers}

\* the cost at which the probe's result holds cell c; 0 when c is not returned
ReachedAt(c) ==
    IF \E k \in 1..Len(probe.nodes) : Pos(probe.nodes[k].x, probe.nodes[k].y) = c
    THEN (CHOOSE n \in Range(probe.nodes) : Pos(n.x, n.y) = c).curCost
    ELSE 0

\* C34: for a non-archer unit starting on forest every first step costs 2
\* whatever the destination terrain (with moveRange 2 exactly the adjacent
\* enterable cells are returned, adjacent forest cells at cost 2; with
\* moveRange 1 none); for an archer starting on forest the first step costs
\* the ordinary entry cost of the destination (2 for forest, 1 otherwise).
C34_ForestExitCost ==
    ProbeFromForest =>
        IF probe.unit.emoji # "bow"
        THEN /\ \A c \in AdjacentEnterable :
                   ReachedAt(c) = IF probe.unit.moveRange >= 2 THEN 2 ELSE 0
             /\ probe.unit.moveRange = 2 =>
                   Range(probe.moves) = AdjacentEnterable
        ELSE \A c \in AdjacentEnterable :
                 LET entry == IF mapSetup(probe.lv, c.x, c.y) = "forest" THEN 2 ELSE 1
                 IN  ReachedAt(c) = IF probe.unit.moveRange >= entry THEN entry ELSE 0

\* a shieldbearer with moveRange 2 leaves a forest cell that has both a forest
\* and a non-forest neighbour, and both neighbours are returned
C34_Witness ==
    /\ ProbeFromForest
    /\ probe.unit.emoji # "bow"
    /\ probe.unit.moveRange = 2
    /\ \E c, d \in Range(probe.moves) :
          /\ Manhattan(c, probe.unit.position) = 1
          /\ Manhattan(d, probe.unit.position) = 1
          /\ mapSetup(probe.lv, c.x, c.y) = "forest"
          /\ mapSetup(probe.lv, d.x, d.y) # "forest"

\* the cells the claim gives for the targeting probe: units of the other team
\* within attackRange of the attacker and in its line of sight
ClaimedTargets ==
    {u.position : u \in
        {v \in Range(probe.roster) :
            /\ v.team # probe.attacker.team
            /\ Manhattan(probe.attacker.position, v.position)
                  <= probe.attacker.attackRange
            /\ hasLineOfSight(probe.attacker.position, v.position,
                              LosGrid(probe.mountains))}}

\* C35: getValidTargets returns exactly the cells of the units of the team
\* opposite to the attacker that are at Manhattan distance at most
\* attackRange and in line of sight of the attacker's cell, each once; never
\* the cell of an ally and never a cell without a unit.
C35_ValidTargetsExact ==
    probe.kind = "targets" =>
        /\ Range(probe.targets) = ClaimedTargets
        /\ Len(probe.targets) = Cardinality(ClaimedTargets)
        /\ \A c \in Range(probe.targets) :
              \E v \in Range(probe.roster) :
                  v.position = c /\ v.team # probe.attacker.team

\* an attacker of range 2 on a map with a mountain has the unit of the other
\* team two cells away as its target
C35_Witness ==
    /\ probe.kind = "targets"
    /\ probe.mountains # {}
    /\ probe.attacker.attackRange = 2
    /\ Len(probe.targets) = 1
    /\ Manhattan(probe.attacker.position, probe.targets[1]) = 2

\* the unit sign vector from the attacker to the target of the probed bash
ProbeDir ==
    Pos(Sign(probe.bash.targetPos.x - probe.bash.attackerPos.x),
        Sign(probe.bash.targetPos.y - probe.bash.attackerPos.y))

\* the cell k steps from cell c along the unit sign vector
AlongDir(c, k) == Pos(c.x + k * ProbeDir.x, c.y + k * ProbeDir.y)

\* in the roster the probed bash returns, unit uid stands on cell c
PlacedAt(uid, c) ==
    \E i \in 1..Len(probe.result.units) :
        probe.result.units[i].id = uid /\ probe.result.units[i].position = c

\* C36: for every attacker/target pair accepted as a valid target the bash
\* displaces along the unit sign vector of (target - attacker): the
\* no-collision destination is the cell 2 steps from the target's cell, the
\* last cell of the knockback path, and the secondary knockback of a struck
\* unit ends 2 steps from the collision cell.
C36_UnitDisplacement ==
    probe.kind = "bash" =>
        LET dest == AlongDir(probe.bash.targetPos, 2)
            path == getKnockbackPath(probe.bash.targetPos, dest)
        IN  /\ probe.result.kind \in {"knockback", "mountainDest"} =>
                  PlacedAt("target", dest) /\ dest = path[2]
            /\ probe.result.kind = "outOfBounds" =>
                  ~InGrid(dest, LEVELS[probe.lv].gridSize)
            /\ probe.result.kind = "water" =>
                  mapSetup(probe.lv, dest.x, dest.y) = "water"
            /\ probe.result.kind = "swap" =>
                  PlacedAt("other", AlongDir(probe.third, 2))

\* the outcomes of a bash that stun its target
StunKinds == ChainKinds \cup {"mountain", "mountainDest"}

\* the step runs the enemy batch and hands the turn back
BatchStep ==
    /\ Settled /\ Settled'
    /\ units' = ClearStun(EnemyBatch(units, grid, GRID_SIZE))

OnePhaseStep ==
    /\ (BashStep /\ lastEvent'.kind \in StunKinds /\ gameState' = "playing")
          => currentTurn' = "enemy"
    /\ (currentTurn = "enemy" /\ currentTurn' = "enemy")
          => /\ Len(postQ') <= Len(postQ)
             /\ Len(bashQ') <= Len(bashQ)
             /\ units' = units \/ BashStep
    /\ (currentTurn = "enemy" /\ currentTurn' = "player") => BatchStep
    /\ (currentTurn = "player" /\ currentTurn' = "enemy" /\ Settled) => MoveStep

\* C37: a bash whose resolution stuns its target forces the turn to enemy, and
\* exactly one enemy phase runs before the player next acts: while the turn is
\* enemy no command is accepted and the pending post-attack timer leaves the
\* turn and the roster alone; the turn comes back only through one enemy
\* batch, run when no timer is pending; and with no timer pending only a new
\* move of the player starts another enemy turn.
C37_OnePhaseAfterStun == [][OnePhaseStep]_vars

\* the stun of a bash has forced the turn to enemy while the post-attack timer
\* of the same click is still pending
C37_Witness ==
    /\ currentTurn = "enemy"
    /\ gameState = "playing"
    /\ lastEvent.kind \in StunKinds
    /\ bashQ = << >>
    /\ postQ # << >>

\* the cost that stands for "not within moveRange"
NoPath == probe.unit.moveRange + 1

\* a move of the probe's unit may enter cell c
MayEnter(c) ==
    /\ c \in LevelCells(probe.lv)
    /\ mapSetup(probe.lv, c.x, c.y) \notin {"water", "mountain"}
    /\ c \notin probe.blockers
    /\ c # probe.unit.position

\* the least cost of a path of at most k steps from the unit's cell to cell c
\* under the entry costs of the planner; NoPath when no such path costs
\* moveRange or less
RECURSIVE CheapestCost(_, _)
CheapestCost(c, k) ==
    IF c = probe.unit.position THEN 0
    ELSE IF k = 0 \/ Manhattan(c, probe.unit.position) > k \/ ~MayEnter(c) THEN NoPath
    ELSE LET via == {CheapestCost(q, k - 1) : q \in Range(Neighbors(c))}
             least == CHOOSE v \in via : \A w \in via : v <= w
         IN  IF least + ClaimStepCost(least, c) >= NoPath THEN NoPath
             ELSE least + ClaimStepCost(least, c)

CommandAcceptedStep == Len(postQ') > Len(postQ)

AttackAfterMoveStep ==
    /\ CommandAcceptedStep => (hasMoved /\ currentTurn = "player")
    /\ (~hasMoved /\ hasMoved') => MoveStep
    /\ (hasMoved /\ HasPlayer(units) /\ HasPlayer(units'))
          => ThePlayer(units').position = ThePlayer(units).position
    /\ EnemyPhaseStep => ~hasMoved'

\* C39: an attack or bash is accepted only after the player's unit has moved
\* to a different cell in the same player phase: a command is accepted only
\* with hasMoved set, hasMoved is set only by a step that changes the cell of
\* the player's unit, the unit keeps that cell while hasMoved is set, and
\* every player phase starts with hasMoved cleared.
C39_AttackOnlyAfterMove == [][AttackAfterMoveStep]_vars

\* an attack or bash has been accepted in the first player phase, with the
\* player's unit away from the cell the level placed it on
C39_Witness ==
    /\ hasMoved
    /\ postQ # << >>
    /\ currentTurn = "player"
    /\ HasPlayer(units)
    /\ ThePlayer(units).position # ThePlayer(LEVELS[level].units).position

\* a command that leads out of the player phase is open: with hasMoved set a
\* stored target that holds an enemy (the attack starts the 800 ms timer that
\* ends the turn), otherwise a cell the player's unit can move to
CanEndTurn ==
    IF hasMoved
    THEN \E i \in 1..Len(validTargets) : \E j \in 1..Len(units) :
            IsEnemy(units[j]) /\ units[j].position = validTargets[i]
    ELSE Len(getValidMoves(ThePlayer(units), grid, units, GRID_SIZE)) > 0

\* C40: in every reachable state where the outcome is playing, the turn is
\* player and no timer is pending, some sequence of player commands ends the
\* turn: the player's unit has a reachable cell or, once it has moved, a
\* target to attack.
C40_PlayerCanEndTurn ==
    (gameState = "playing" /\ currentTurn = "player" /\ Settled /\ HasPlayer(units))
        => CanEndTurn

====
